---- MODULE Spec2Model ----
(***************************************************************************)
(* Tenant health evaluation of NiroSubs/ns-infra.                          *)
(*                                                                         *)
(*   - the capacity classifiers (the SQL CASE expressions of               *)
(*     checkTenantPerformance and checkTenantLimits),                      *)
(*   - one pass of tenant-health-production.js (ProductionTenantHealth),   *)
(*   - one pass of the tenant health monitor (TenantHealthMonitor).        *)
(*                                                                         *)
(* The database is a value drawn in Init and never written: both scripts   *)
(* only read it.  A table is a bag of rows (row |-> multiplicity), SQL     *)
(* text is a sequence of one-character strings.                            *)
(***************************************************************************)
EXTENDS Integers, Sequences, FiniteSets, TLC

\* ------------------------------------------------------------------ bounds

\* Largest row count / limit the classifier specification enumerates.
MaxCount == 12
\* Largest total number of tenant_users + tenant_usage_stats rows.
MaxRows == 2

\* The passes run on one object.
MaxRuns == 2

\* Largest total number of rows of a database two passes are run over.
RerunRows == 1

\* ------------------------------------------------------- SQL text and JSON

\* SQL NULL (no text is spelled like this token).
NULL == <<"NULL">>

DigitChars == <<"0", "1", "2", "3", "4", "5", "6", "7", "8", "9">>

\* The text of a non-negative integer, as jsonb renders it.
RECURSIVE NatToText(_)
NatToText(n) ==
    IF n < 10 THEN <<DigitChars[n + 1]>>
    ELSE NatToText(n \div 10) \o <<DigitChars[(n % 10) + 1]>>

\* limits->>'key' of a JSON integer: its decimal text.
IntToText(n) == IF n < 0 THEN <<"-">> \o NatToText(-n) ELSE NatToText(n)

DigitValue(c) == CHOOSE i \in 0..9 : DigitChars[i + 1] = c

RECURSIVE TextToNat(_)
TextToNat(t) ==
    IF Len(t) = 0 THEN 0
    ELSE TextToNat(SubSeq(t, 1, Len(t) - 1)) * 10 + DigitValue(t[Len(t)])

\* text::int
CastInt(t) == IF t[1] = "-" THEN -TextToNat(Tail(t)) ELSE TextToNat(t)

\* A jsonb limits object is a set of <<key, integer>> pairs.
\* limits->>'key': NULL when the key is absent.
JsonGetText(limits, key) ==
    IF \E p \in limits : p[1] = key
    THEN IntToText((CHOOSE p \in limits : p[1] = key)[2])
    ELSE NULL

Coalesce(x, dflt) == IF x = NULL THEN dflt ELSE x

\* The literal '999999' both scripts fall back to.
DefaultLimitText == <<"9", "9", "9", "9", "9", "9">>

\* COALESCE(t.limits->>'users', '999999')::int
MaxUsers(limits) == CastInt(Coalesce(JsonGetText(limits, "users"), DefaultLimitText))

\* COALESCE(t.limits->>'apiCalls', '999999')::int
MaxApiCalls(limits) == CastInt(Coalesce(JsonGetText(limits, "apiCalls"), DefaultLimitText))

\* ------------------------------------------------------------- classifiers

\* Monitor, users dimension.  count > max * 0.8 is exact (numeric), so it is
\* 10 * count > 8 * max.
\* The integer nearest to n / d for n >= 0 and d > 0, a tie going to the even
\* neighbour: PostgreSQL's cast of a double precision value to integer.
RoundHalfEven(n, d) ==
    LET q == n \div d
        r == n % d
    IN IF 2 * r < d THEN q
       ELSE IF 2 * r > d THEN q + 1
       ELSE IF q % 2 = 0 THEN q
       ELSE q + 1

\* The value of user_utilization / api_utilization when the division raises
\* division_by_zero (a limit of 0).
DivisionByZero == -2

\* CASE WHEN max = -1 THEN 0 ELSE CAST((count::float / max) * 100 AS INTEGER) END
Utilization(count, max) ==
    IF max = -1 THEN 0
    ELSE IF max = 0 THEN DivisionByZero
    ELSE RoundHalfEven(100 * count, max)

\* The limit as the log line of checkTenantPerformance shows it; the infinity
\* sign of the source is written ~ here.
LimitDisplay(max) == IF max = -1 THEN <<"~">> ELSE IntToText(max)

\* The percentage as the log line shows it: (${tenant.user_utilization || 0}%).
PercentDisplay(utilization) == IntToText(utilization) \o <<"%">>

UserStatus_NoUnlimited(user_count, max_users) ==
    IF user_count >= max_users THEN "EXCEEDED"
    ELSE IF 10 * user_count > 8 * max_users THEN "HIGH"
    ELSE "OK"

UserStatus_TieIsHigh(user_count, max_users) ==
    IF max_users = -1 THEN "UNLIMITED"
    ELSE IF user_count > max_users THEN "EXCEEDED"
    ELSE IF 10 * user_count > 8 * max_users THEN "HIGH"
    ELSE "OK"

UserStatus(user_count, max_users) ==
    IF max_users = -1 THEN "UNLIMITED"
    ELSE IF user_count >= max_users THEN "EXCEEDED"
    ELSE IF 10 * user_count > 8 * max_users THEN "HIGH"
    ELSE "OK"

\* Monitor, apiCalls dimension.
ApiStatus(api_calls_count, max_api_calls) ==
    IF max_api_calls = -1 THEN "UNLIMITED"
    ELSE IF api_calls_count >= max_api_calls THEN "EXCEEDED"
    ELSE IF 10 * api_calls_count > 8 * max_api_calls THEN "HIGH"
    ELSE "OK"

\* Production, users dimension: the first branch compares the text, the
\* others the cast value; count > max * 0.9 is 10 * count > 9 * max.
CapacityStatus(current_users, limits) ==
    IF JsonGetText(limits, "users") = <<"-", "1">> THEN "UNLIMITED"
    ELSE IF current_users > MaxUsers(limits) THEN "EXCEEDED"
    ELSE IF 10 * current_users > 9 * MaxUsers(limits) THEN "HIGH"
    ELSE "OK"

Severity(status) ==
    CASE status = "EXCEEDED" -> 2
      [] status = "HIGH" -> 1
      [] OTHER -> 0

\* ---------------------------------------------------------------- database

TenantIds == {1, 2}

\* A tenant id that no row of tenants carries.
OrphanTenantIds == {99}

TenantName(t) == IF t = 1 THEN "alpha" ELSE "beta"

\* The limits objects the tenants are drawn from.
UnlimitedLimits == {<<"users", -1>>, <<"apiCalls", -1>>}
FiniteLimits == {<<"users", 1>>, <<"apiCalls", 6>>}
ApiOnlyLimits == {<<"apiCalls", 6>>}

LimitsChoices(t) ==
    IF t = 1 THEN {UnlimitedLimits, FiniteLimits, ApiOnlyLimits}
    ELSE {UnlimitedLimits, FiniteLimits}

TenantRows ==
    {f \in [TenantIds -> [status : {"active", "suspended"},
                           limits : {UnlimitedLimits, FiniteLimits, ApiOnlyLimits}]] :
        \A t \in TenantIds : f[t].limits \in LimitsChoices(t)}

\* The kinds of tenant_users rows (tenant_id, status).
UserRowTypes ==
    {[tenant_id |-> 1, status |-> "active"],
     [tenant_id |-> 1, status |-> "inactive"],
     [tenant_id |-> 2, status |-> "active"]}
    \cup {[tenant_id |-> o, status |-> "active"] : o \in OrphanTenantIds}

\* The kinds of tenant_usage_stats rows; recent is stat_date >= CURRENT_DATE - 30.
UsageRowTypes ==
    {[tenant_id |-> 1, api_calls_count |-> 5, recent |-> TRUE],
     [tenant_id |-> 1, api_calls_count |-> 5, recent |-> FALSE],
     [tenant_id |-> 2, api_calls_count |-> 5, recent |-> TRUE]}
    \cup {[tenant_id |-> o, api_calls_count |-> 5, recent |-> TRUE] : o \in OrphanTenantIds}

RECURSIVE SumOver(_, _)
\* The sum of f over the finite set S.
SumOver(f, S) ==
    IF S = {} THEN 0
    ELSE LET x == CHOOSE y \in S : TRUE IN f[x] + SumOver(f, S \ {x})

BagSize(bag) == SumOver(bag, DOMAIN bag)

Databases ==
    {[tenants |-> tn, tenant_users |-> tu, tenant_usage_stats |-> tus] :
        tn \in TenantRows,
        <<tu, tus>> \in {p \in [UserRowTypes -> 0..MaxRows] \X [UsageRowTypes -> 0..MaxRows] :
                            BagSize(p[1]) + BagSize(p[2]) <= MaxRows}}

\* --------------------------------------------------------------- SQL queries

\* COUNT(*) over the rows of a table whose kind is in kept.
CountRows(bag, kept) == SumOver(bag, kept \cap DOMAIN bag)

\* tenants t WHERE t.status = 'active'
ActiveTenantIds(d) == {t \in TenantIds : d.tenants[t].status = "active"}

\* The sequences that list every element of S once.
Orderings(S) ==
    {s \in [1..Cardinality(S) -> S] : \A i, j \in 1..Cardinality(S) : i # j => s[i] # s[j]}

IsolationRow_JoinsEveryRow(d, t) ==
    LET joined == UserRowTypes
        mismatch == {r \in joined : r.tenant_id # t}
    IN [tenant_name |-> TenantName(t),
        user_count |-> CountRows(d.tenant_users, joined),
        isolation_violations |-> CountRows(d.tenant_users, mismatch)]

\* The isolation query of the production script, one row per active tenant
\* before the final WHERE: the rows of tenant_users that the LEFT JOIN
\* ON tu.tenant_id = t.id pairs with tenant t, and among them those whose
\* tenant_id differs from t.id.
IsolationRow(d, t) ==
    LET joined == {r \in UserRowTypes : r.tenant_id = t}
        mismatch == {r \in joined : r.tenant_id # t}
    IN [tenant_name |-> TenantName(t),
        user_count |-> CountRows(d.tenant_users, joined),
        isolation_violations |-> CountRows(d.tenant_users, mismatch)]

\* ... WHERE isolation_violations > 0
IsolationQuery(d) ==
    {row \in {IsolationRow(d, t) : t \in ActiveTenantIds(d)} : row.isolation_violations > 0}

\* The tenant_capacity row of the production script for tenant t.
CapacityRow(d, t) ==
    LET activeUser == {r \in UserRowTypes : r.tenant_id = t /\ r.status = "active"}
        current_users == CountRows(d.tenant_users, activeUser)
    IN [id |-> t,
        name |-> TenantName(t),
        current_users |-> current_users,
        max_users |-> MaxUsers(d.tenants[t].limits),
        capacity_status |-> CapacityStatus(current_users, d.tenants[t].limits)]

CapacityRank(status) ==
    CASE status = "EXCEEDED" -> 1
      [] status = "HIGH" -> 2
      [] OTHER -> 3

\* The answers the capacity query may give: the rows in any order that
\* ORDER BY CASE capacity_status ... END allows.
CapacityQuery(d) ==
    {s \in Orderings({CapacityRow(d, t) : t \in ActiveTenantIds(d)}) :
        \A i, j \in 1..Len(s) :
            i < j => CapacityRank(s[i].capacity_status) <= CapacityRank(s[j].capacity_status)}

\* SELECT COUNT(*) FROM tenants WHERE status = 'active'
ActiveTenantCount(d) == Cardinality(ActiveTenantIds(d))

\* tenant_users rows with no tenant: LEFT JOIN tenants ... WHERE t.id IS NULL
OrphanUserCount(d) ==
    CountRows(d.tenant_users, {r \in UserRowTypes : r.tenant_id \notin TenantIds})

\* tenant_usage_stats rows with no tenant.
OrphanUsageCount(d) ==
    CountRows(d.tenant_usage_stats, {r \in UsageRowTypes : r.tenant_id \notin TenantIds})

\* The leakage query of the monitor, one row per active tenant before the
\* final WHERE.  Both LEFT JOINs are on tenant_id = t.id; a tenant without
\* rows in a table is joined with one all-NULL row, which no COUNT counts.
LeakageRow(d, t) ==
    LET userJoined == {r \in UserRowTypes : r.tenant_id = t}
        usageJoined == {r \in UsageRowTypes : r.tenant_id = t}
        userMismatch == {r \in userJoined : r.tenant_id # t}
        usageMismatch == {r \in usageJoined : r.tenant_id # t}
        users == CountRows(d.tenant_users, userJoined)
        usages == CountRows(d.tenant_usage_stats, usageJoined)
    IN [tenant_name |-> TenantName(t),
        mismatched_users |->
            CountRows(d.tenant_users, userMismatch) * (IF usages = 0 THEN 1 ELSE usages),
        mismatched_usage |->
            CountRows(d.tenant_usage_stats, usageMismatch) * (IF users = 0 THEN 1 ELSE users)]

\* ... WHERE mismatched_users > 0 OR mismatched_usage > 0
LeakageQuery(d) ==
    {row \in {LeakageRow(d, t) : t \in ActiveTenantIds(d)} :
        row.mismatched_users > 0 \/ row.mismatched_usage > 0}

\* The orphan query of the monitor: one row per table (UNION ALL).
MonitorOrphanQuery(d) ==
    <<[table_name |-> "tenant_users", orphan_count |-> OrphanUserCount(d)],
      [table_name |-> "tenant_usage_stats", orphan_count |-> OrphanUsageCount(d)]>>

\* The tenant_metrics row of the monitor for tenant t.  The two LEFT JOINs
\* multiply: every active user row is paired with every recent usage row.
PerfRow(d, t) ==
    LET activeUser == {r \in UserRowTypes : r.tenant_id = t /\ r.status = "active"}
        recentUsage == {r \in UsageRowTypes : r.tenant_id = t /\ r.recent}
        users == CountRows(d.tenant_users, activeUser)
        usages == CountRows(d.tenant_usage_stats, recentUsage)
        apiSum == SumOver([r \in UsageRowTypes |-> r.api_calls_count * d.tenant_usage_stats[r]],
                          recentUsage)
        user_count == users * (IF usages = 0 THEN 1 ELSE usages)
        api_calls_count == apiSum * (IF users = 0 THEN 1 ELSE users)
    IN [id |-> t,
        name |-> TenantName(t),
        user_count |-> user_count,
        api_calls_count |-> api_calls_count,
        max_users |-> MaxUsers(d.tenants[t].limits),
        max_api_calls |-> MaxApiCalls(d.tenants[t].limits),
        user_utilization |-> Utilization(user_count, MaxUsers(d.tenants[t].limits)),
        api_utilization |-> Utilization(api_calls_count, MaxApiCalls(d.tenants[t].limits)),
        user_status |-> UserStatus(user_count, MaxUsers(d.tenants[t].limits)),
        api_status |-> ApiStatus(api_calls_count, MaxApiCalls(d.tenants[t].limits))]

\* The answers the performance query may give: ORDER BY user_count DESC.
PerfQuery(d) ==
    {s \in Orderings({PerfRow(d, t) : t \in ActiveTenantIds(d)}) :
        \A i, j \in 1..Len(s) : i < j => s[i].user_count >= s[j].user_count}

\* -------------------------------------------------------------------- state

VARIABLES
    c_count,          \* classifier input: the count of a dimension
    c_limits,         \* classifier input: the tenant's limits object
    c_classified,     \* whether c_result is the classification of the input
    c_result,         \* [user_status, api_status, capacity_status]
    script,           \* "production" or "monitor": the script this process runs
    db,               \* the database
    pc,               \* the step of the pass that runs next
    dbOpen,           \* this.db holds an open connection
    ran,              \* the checks that have returned
    queryFailed,      \* the queries that threw
    issues,           \* production: this.issues
    isolationRows,    \* production: isolationCheck.rows
    capacityRows,     \* production: capacityCheck.rows
    capacityCounts,   \* production: healthyCount, warningCount, exceededCount
    orphanCount,      \* production: orphanCount of checkDatabaseHealth, -1 = not computed
    checks,           \* production: isolationHealthy, capacityHealthy, databaseHealthy
    alerts,           \* monitor: this.healthMetrics.alerts
    violations,       \* monitor: the violations checkTenantIsolation returns
    perfRows,         \* monitor: perfCheck.rows
    perfCounts,       \* monitor: healthyTenants, warningTenants, criticalTenants
    serviceResults,   \* monitor: the results checkServiceHealth returns
    report,           \* productionReady / isHealthy: "pending", "true", "false"
    passResult,       \* how the pass's promise settled: "pending", "true", "false", "threw"
    exitCode,         \* the process exit status, -1 while running
    runs,             \* the reports of the earlier passes run on the same object
    probeOutcome,     \* checkServiceHealth: what each service's probe met, "pending" before
    batch,            \* checkServiceHealth: "idle", "running", "resolved"
    runTestName,      \* runTest: the name argument
    runTestPc,        \* runTest: "idle", "attempt", "sleep", "returned"
    attempt,          \* runTest: the loop variable
    trace,            \* runTest: the commands executed and the sleeps taken, in order
    runTestResult,    \* runTest: the value returned, "none" before it returns
    validationPc,     \* validator: the step of runFullValidation that runs next
    testResults,      \* validator: the runTest calls that returned, in order, with their results
    validatorResults, \* validator: this.results
    deploymentApproved, \* validator: "pending", then what generateDeploymentReport returned
    validationExit,   \* validator: the process exit status, -1 while running
    healthPc,         \* health check: the step of runHealthChecks that runs next
    checkIndex,       \* health check: the position in the endpoint lists
    requests,         \* health check: the requests made, in order
    requestResult,    \* health check: result of testEndpoint
    healthResults,    \* health check: results
    awsOutcome,       \* health check: what the AWS CLI commands did
    healthExit,       \* health check: the process exit status, -1 while running
    dashPc,           \* dashboard: the step of runFullValidation that runs next
    deploymentResults, \* dashboard: deploymentResults
    commandsRun,      \* dashboard: the commands this run started, with their outcomes
    emailTransporter, \* dashboard: whether emailTransporter is set
    notification,     \* dashboard: what sendEmailNotification did in this run, "none" before
    awaitingMail,     \* dashboard: the runs suspended at await emailTransporter.sendMail
    clock,            \* dashboard: the time new Date() reads
    dashRuns,         \* dashboard: the number of runs started
    suitePc,          \* test suite: the step of runAllTests that runs next
    suiteIndex,       \* test suite: the position in the list of tests
    suiteResults,     \* test suite: this.results
    suiteOutcomes,    \* test suite: whether each test that ran returned or threw
    suiteExit         \* test suite: the process exit status, -1 while running

classifierVars == <<c_count, c_limits, c_classified, c_result>>

productionVars == <<issues, isolationRows, capacityRows, capacityCounts, orphanCount, checks>>

monitorVars == <<alerts, violations, perfRows, perfCounts, serviceResults>>

passVars == <<script, db, pc, dbOpen, ran, queryFailed, report, passResult, exitCode>>

rerunVars == <<runs>>

probeVars == <<probeOutcome, batch>>

validatorVars == <<runTestName, runTestPc, attempt, trace, runTestResult>>

validationVars ==
    <<validationPc, testResults, validatorResults, deploymentApproved, validationExit>>

healthVars ==
    <<healthPc, checkIndex, requests, requestResult, healthResults, awsOutcome, healthExit>>

dashboardVars ==
    <<dashPc, deploymentResults, commandsRun, emailTransporter, notification, awaitingMail,
      clock, dashRuns>>

suiteVars == <<suitePc, suiteIndex, suiteResults, suiteOutcomes, suiteExit>>

\* The variables of the scripts other than the two tenant health passes.
otherVars == <<validationVars, healthVars, dashboardVars, suiteVars>>

\* The variables of the tenant health passes, the classifier and the probes.
passesVars ==
    <<classifierVars, productionVars, monitorVars, passVars, rerunVars, probeVars>>

vars ==
    <<classifierVars, productionVars, monitorVars, passVars, rerunVars, probeVars,
      validatorVars, otherVars>>

BoolText(b) == IF b THEN "true" ELSE "false"

NoCounts == [healthy |-> 0, warning |-> 0, critical |-> 0]

NoChecks == [isolation |-> "pending", capacity |-> "pending", database |-> "pending"]

NoResult ==
    [user_status |-> "none", api_status |-> "none", capacity_status |-> "none",
     user_utilization |-> -1, api_utilization |-> -1,
     user_line |-> <<>>, api_line |-> <<>>]

\* The classifier's variables while a pass is modelled.
ClassifierIdle ==
    /\ c_count = 0
    /\ c_limits = {}
    /\ c_classified = FALSE
    /\ c_result = NoResult

\* DeploymentValidator's constructor: this.results.
ValidatorConstructed ==
    /\ validationPc = "start"
    /\ testResults = <<>>
    /\ validatorResults =
        [infrastructure |-> FALSE, tenantHealth |-> FALSE, productionReadiness |-> FALSE]
    /\ deploymentApproved = "pending"
    /\ validationExit = -1

\* makeRequest has not been called: no result yet.
NoRequest == [success |-> FALSE, outcome |-> "none", statusCode |-> 0]

\* checkAWSServices has not run.
NoAwsOutcome == [cli |-> "none", lambda |-> "none", cognito |-> "none"]

\* The production health check when the script is loaded: let results.
HealthLoaded ==
    /\ healthPc = "start"
    /\ checkIndex = 1
    /\ requests = <<>>
    /\ requestResult = NoRequest
    /\ healthResults = [passed |-> 0, failed |-> 0, warnings |-> 0, critical_failures |-> <<>>]
    /\ awsOutcome = NoAwsOutcome
    /\ healthExit = -1

\* The dashboard when the script is loaded: let deploymentResults, of which
\* the statuses and overall are kept; lastUpdate 0 stands for null. Whether
\* emailTransporter is set is left to the initial condition.
DashboardLoaded ==
    /\ dashPc = "idle"
    /\ deploymentResults =
        [lastUpdate |-> 0,
         infrastructure |-> "unknown", tenantHealth |-> "unknown", tests |-> "unknown",
         overall |-> [status |-> "unknown", ready |-> FALSE]]
    /\ commandsRun = <<>>
    /\ notification = "none"
    /\ awaitingMail = {}
    /\ clock = 0
    /\ dashRuns = 0

\* IntegrationTestSuite's constructor: this.results = [].
SuiteConstructed ==
    /\ suitePc = "start"
    /\ suiteIndex = 1
    /\ suiteResults = <<>>
    /\ suiteOutcomes = <<>>
    /\ suiteExit = -1

\* The scripts other than the tenant health passes have not started.
OthersIdle ==
    /\ ValidatorConstructed
    /\ HealthLoaded
    /\ DashboardLoaded
    /\ emailTransporter = FALSE
    /\ SuiteConstructed

\* No earlier pass, no probe batch, no runTest call and no other script.
ElsewhereIdle ==
    /\ runs = <<>>
    /\ probeOutcome = <<>>
    /\ batch = "idle"
    /\ runTestName = "none"
    /\ runTestPc = "idle"
    /\ attempt = 0
    /\ trace = <<>>
    /\ runTestResult = "none"
    /\ OthersIdle

\* The state of either script's object after construction.
PassConstructed ==
    /\ pc = "start"
    /\ dbOpen = FALSE
    /\ ran = {}
    /\ queryFailed = {}
    /\ issues = <<>>
    /\ isolationRows = <<>>
    /\ capacityRows = <<>>
    /\ capacityCounts = NoCounts
    /\ orphanCount = -1
    /\ checks = NoChecks
    /\ alerts = <<>>
    /\ violations = <<>>
    /\ perfRows = <<>>
    /\ perfCounts = NoCounts
    /\ serviceResults = {}
    /\ report = "pending"
    /\ passResult = "pending"
    /\ exitCode = -1

\* ------------------------------------------------- production script's pass

ProdConnect_FailureContinues ==
    /\ script = "production"
    /\ pc = "start"
    /\ \E ok \in BOOLEAN :
        /\ dbOpen' = ok
        /\ pc' = "isolation"
        /\ passResult' = passResult
    /\ UNCHANGED <<otherVars, validatorVars, probeVars, rerunVars, classifierVars, productionVars, monitorVars>>
    /\ UNCHANGED <<script, db, ran, queryFailed, report, exitCode>>

\* connect(), awaited before the try block of runProductionHealthCheck: a
\* failure is rethrown and leaves the pass.
ProdConnect ==
    /\ script = "production"
    /\ pc = "start"
    /\ \E ok \in BOOLEAN :
        IF ok
        THEN /\ dbOpen' = TRUE
             /\ pc' = "isolation"
             /\ passResult' = passResult
        ELSE /\ dbOpen' = FALSE
             /\ pc' = "exit"
             /\ passResult' = "threw"
    /\ UNCHANGED <<otherVars, validatorVars, probeVars, rerunVars, classifierVars, productionVars, monitorVars>>
    /\ UNCHANGED <<script, db, ran, queryFailed, report, exitCode>>

IsolationIssue(row) == [kind |-> "Tenant isolation violation", detail |-> row.tenant_name]

ProdIsolationAnswered_ToleratesOne(rows) ==
    /\ isolationRows' = rows
    /\ IF Len(rows) <= 1
       THEN /\ issues' = issues
            /\ checks' = [checks EXCEPT !.isolation = "true"]
       ELSE /\ issues' = issues \o [i \in 1..Len(rows) |-> IsolationIssue(rows[i])]
            /\ checks' = [checks EXCEPT !.isolation = "false"]
    /\ queryFailed' = queryFailed

\* The part of checkTenantIsolation that follows the query: rows is
\* isolationCheck.rows.
ProdIsolationAnswered(rows) ==
    /\ isolationRows' = rows
    /\ IF Len(rows) = 0
       THEN /\ issues' = issues
            /\ checks' = [checks EXCEPT !.isolation = "true"]
       ELSE /\ issues' = issues \o [i \in 1..Len(rows) |-> IsolationIssue(rows[i])]
            /\ checks' = [checks EXCEPT !.isolation = "false"]
    /\ queryFailed' = queryFailed

ProdIsolationFailed_Throws ==
    /\ isolationRows' = isolationRows
    /\ issues' = issues
    /\ checks' = checks
    /\ queryFailed' = queryFailed \cup {"isolation"}

\* The catch block of checkTenantIsolation.
ProdIsolationFailed ==
    /\ isolationRows' = isolationRows
    /\ issues' = Append(issues, [kind |-> "Isolation check failure", detail |-> "error"])
    /\ checks' = [checks EXCEPT !.isolation = "false"]
    /\ queryFailed' = queryFailed \cup {"isolation"}

ProdIsolationDone ==
    /\ pc' = "limits"
    /\ ran' = ran \cup {"isolation"}
    /\ UNCHANGED <<otherVars, validatorVars, probeVars, rerunVars, classifierVars, monitorVars>>
    /\ UNCHANGED <<capacityRows, capacityCounts, orphanCount>>
    /\ UNCHANGED <<script, db, dbOpen, report, passResult, exitCode>>

ProdCheckTenantIsolation ==
    /\ script = "production"
    /\ pc = "isolation"
    /\ \/ \E rows \in Orderings(IsolationQuery(db)) : ProdIsolationAnswered(rows)
       \/ ProdIsolationFailed
    /\ ProdIsolationDone

CapacityBucket_HighIsCritical(row) ==
    IF row.capacity_status = "EXCEEDED" \/ row.capacity_status = "HIGH" THEN "critical"
    ELSE "healthy"

\* The forEach of checkTenantLimits: the three counters and the issues pushed.
CapacityBucket(row) ==
    IF row.capacity_status = "EXCEEDED" THEN "critical"
    ELSE IF row.capacity_status = "HIGH" THEN "warning"
    ELSE "healthy"

CapacityIssue(row) == [kind |-> "Tenant capacity exceeded", detail |-> row.name]

ProdCheckTenantLimits ==
    /\ script = "production"
    /\ pc = "limits"
    /\ \/ \E rows \in CapacityQuery(db) :
            LET exceeded == SelectSeq(rows, LAMBDA r : CapacityBucket(r) = "critical")
                counts == [healthy |-> Len(SelectSeq(rows, LAMBDA r : CapacityBucket(r) = "healthy")),
                           warning |-> Len(SelectSeq(rows, LAMBDA r : CapacityBucket(r) = "warning")),
                           critical |-> Len(exceeded)]
            IN /\ capacityRows' = rows
               /\ capacityCounts' = counts
               /\ issues' = issues \o [i \in 1..Len(exceeded) |-> CapacityIssue(exceeded[i])]
               /\ checks' = [checks EXCEPT !.capacity = BoolText(counts.critical = 0)]
               /\ queryFailed' = queryFailed
       \/ /\ issues' = Append(issues, [kind |-> "Capacity check failure", detail |-> "error"])
          /\ checks' = [checks EXCEPT !.capacity = "false"]
          /\ queryFailed' = queryFailed \cup {"capacity"}
          /\ UNCHANGED <<capacityRows, capacityCounts>>
    /\ pc' = "database"
    /\ ran' = ran \cup {"capacity"}
    /\ UNCHANGED <<otherVars, validatorVars, probeVars, rerunVars, classifierVars, monitorVars>>
    /\ UNCHANGED <<isolationRows, orphanCount>>
    /\ UNCHANGED <<script, db, dbOpen, report, passResult, exitCode>>

\* checkDatabaseHealth: the count query, the early return when no tenant is
\* active, then the orphan query, whose count is only logged.
ProdCheckDatabaseHealth ==
    /\ script = "production"
    /\ pc = "database"
    /\ \/ /\ ActiveTenantCount(db) > 0
          /\ orphanCount' = OrphanUserCount(db)
          /\ checks' = [checks EXCEPT !.database = "true"]
          /\ UNCHANGED <<issues, queryFailed>>
       \/ /\ ~(ActiveTenantCount(db) > 0)
          /\ issues' = Append(issues, [kind |-> "No active tenants in database", detail |-> ""])
          /\ checks' = [checks EXCEPT !.database = "false"]
          /\ UNCHANGED <<orphanCount, queryFailed>>
       \/ /\ issues' = Append(issues, [kind |-> "Database health failure", detail |-> "error"])
          /\ checks' = [checks EXCEPT !.database = "false"]
          /\ queryFailed' = queryFailed \cup {"tenantCount"}
          /\ UNCHANGED orphanCount
       \/ /\ ActiveTenantCount(db) > 0
          /\ issues' = Append(issues, [kind |-> "Database health failure", detail |-> "error"])
          /\ checks' = [checks EXCEPT !.database = "false"]
          /\ queryFailed' = queryFailed \cup {"orphans"}
          /\ UNCHANGED orphanCount
    /\ pc' = "report"
    /\ ran' = ran \cup {"database"}
    /\ UNCHANGED <<otherVars, validatorVars, probeVars, rerunVars, classifierVars, monitorVars>>
    /\ UNCHANGED <<isolationRows, capacityRows, capacityCounts>>
    /\ UNCHANGED <<script, db, dbOpen, report, passResult, exitCode>>

ProductionReady_AllowsOne(recorded) == Len(recorded) <= 1

\* generateProductionReport: ready exactly when this.issues is empty.
ProductionReady(recorded) == Len(recorded) = 0

GenerateProductionReport ==
    /\ script = "production"
    /\ pc = "report"
    /\ report' = BoolText(ProductionReady(issues))
    /\ pc' = "disconnect"
    /\ UNCHANGED <<otherVars, validatorVars, probeVars, rerunVars, classifierVars, productionVars, monitorVars>>
    /\ UNCHANGED <<script, db, dbOpen, ran, queryFailed, passResult, exitCode>>

\* The finally block: disconnect() ends the connection (Client.end() resolves
\* once the connection is closed), then the try block's value is returned.
ProdDisconnect ==
    /\ script = "production"
    /\ pc = "disconnect"
    /\ dbOpen
    /\ dbOpen' = FALSE
    /\ passResult' = report
    /\ pc' = "exit"
    /\ UNCHANGED <<otherVars, validatorVars, probeVars, rerunVars, classifierVars, productionVars, monitorVars>>
    /\ UNCHANGED <<script, db, ran, queryFailed, report, exitCode>>

ExitStatus_Inverted(settled) == IF settled = "true" THEN 1 ELSE 0

\* main: .then(isHealthy => process.exit(isHealthy ? 0 : 1)), .catch(=> exit(1)).
ExitStatus(settled) == IF settled = "true" THEN 0 ELSE 1

ProdExit ==
    /\ script = "production"
    /\ pc = "exit"
    /\ exitCode' = ExitStatus(passResult)
    /\ pc' = "done"
    /\ UNCHANGED <<otherVars, validatorVars, probeVars, rerunVars, classifierVars, productionVars, monitorVars>>
    /\ UNCHANGED <<script, db, dbOpen, ran, queryFailed, report, passResult>>

ProductionNext ==
    \/ ProdConnect
    \/ ProdCheckTenantIsolation
    \/ ProdCheckTenantLimits
    \/ ProdCheckDatabaseHealth
    \/ GenerateProductionReport
    \/ ProdDisconnect
    \/ ProdExit

\* ---------------------------------------------------------- monitor's pass

\* connect(), awaited before the try block of runFullHealthCheck.
MonConnect ==
    /\ script = "monitor"
    /\ pc = "start"
    /\ \E ok \in BOOLEAN :
        IF ok
        THEN /\ dbOpen' = TRUE
             /\ pc' = "isolation"
             /\ passResult' = passResult
        ELSE /\ dbOpen' = FALSE
             /\ pc' = "exit"
             /\ passResult' = "threw"
    /\ UNCHANGED <<otherVars, validatorVars, probeVars, rerunVars, classifierVars, productionVars, monitorVars>>
    /\ UNCHANGED <<script, db, ran, queryFailed, report, exitCode>>

LeakViolation(row) == [kind |-> "violations", detail |-> row.tenant_name]

OrphanViolation(row) == [kind |-> "orphaned records", detail |-> row.table_name]

CriticalAlert(service) == [type |-> "CRITICAL", service |-> service]

WarningAlert(service) == [type |-> "WARNING", service |-> service]

\* The violations checkTenantIsolation collects from the two answers.
CollectViolations(leakRows, orphanRows) ==
    [i \in 1..Len(leakRows) |-> LeakViolation(leakRows[i])]
    \o [i \in 1..Len(SelectSeq(orphanRows, LAMBDA r : r.orphan_count > 0)) |->
            OrphanViolation(SelectSeq(orphanRows, LAMBDA r : r.orphan_count > 0)[i])]

\* checkTenantIsolation of the monitor: both queries inside one try block; the
\* catch block pushes a violation and no alert.
MonCheckTenantIsolation ==
    /\ script = "monitor"
    /\ pc = "isolation"
    /\ \/ \E leakRows \in Orderings(LeakageQuery(db)) :
            LET found == CollectViolations(leakRows, MonitorOrphanQuery(db))
            IN /\ violations' = found
               /\ alerts' = IF Len(found) = 0 THEN alerts
                            ELSE Append(alerts, CriticalAlert("Database"))
               /\ queryFailed' = queryFailed
       \/ /\ violations' = <<[kind |-> "Isolation check failed", detail |-> "error"]>>
          /\ alerts' = alerts
          /\ queryFailed' = queryFailed \cup {"leakage"}
       \/ \E leakRows \in Orderings(LeakageQuery(db)) :
            /\ violations' = Append(CollectViolations(leakRows, <<>>),
                                    [kind |-> "Isolation check failed", detail |-> "error"])
            /\ alerts' = alerts
            /\ queryFailed' = queryFailed \cup {"orphans"}
    /\ pc' = "performance"
    /\ ran' = ran \cup {"isolation"}
    /\ UNCHANGED <<otherVars, validatorVars, probeVars, rerunVars, classifierVars, productionVars>>
    /\ UNCHANGED <<perfRows, perfCounts, serviceResults>>
    /\ UNCHANGED <<script, db, dbOpen, report, passResult, exitCode>>

PerfBucket_WarningFirst(row) ==
    LET hasExceeded == row.user_status = "EXCEEDED" \/ row.api_status = "EXCEEDED"
        hasWarning == row.user_status = "HIGH" \/ row.api_status = "HIGH"
    IN IF hasWarning THEN "warning"
       ELSE IF hasExceeded THEN "critical"
       ELSE "healthy"

\* The bucket of the forEach of checkTenantPerformance.
PerfBucket(row) ==
    LET hasExceeded == row.user_status = "EXCEEDED" \/ row.api_status = "EXCEEDED"
        hasWarning == row.user_status = "HIGH" \/ row.api_status = "HIGH"
    IN IF hasExceeded THEN "critical"
       ELSE IF hasWarning THEN "warning"
       ELSE "healthy"

\* checkTenantPerformance: the catch block only logs.
MonCheckTenantPerformance ==
    /\ script = "monitor"
    /\ pc = "performance"
    /\ \/ \E rows \in PerfQuery(db) :
            LET exceeded == SelectSeq(rows, LAMBDA r : PerfBucket(r) = "critical")
            IN /\ perfRows' = rows
               /\ perfCounts' =
                    [healthy |-> Len(SelectSeq(rows, LAMBDA r : PerfBucket(r) = "healthy")),
                     warning |-> Len(SelectSeq(rows, LAMBDA r : PerfBucket(r) = "warning")),
                     critical |-> Len(exceeded)]
               /\ alerts' = alerts \o [i \in 1..Len(exceeded) |-> CriticalAlert("Tenant Limits")]
               /\ queryFailed' = queryFailed
       \/ /\ queryFailed' = queryFailed \cup {"performance"}
          /\ UNCHANGED <<perfRows, perfCounts, alerts>>
    /\ pc' = "services"
    /\ ran' = ran \cup {"performance"}
    /\ UNCHANGED <<otherVars, validatorVars, probeVars, rerunVars, classifierVars, productionVars>>
    /\ UNCHANGED <<violations, serviceResults>>
    /\ UNCHANGED <<script, db, dbOpen, report, passResult, exitCode>>

\* config.services
Services == {"auth", "user", "dashboard", "payments"}

\* What a probe may meet: a fast 200, a slow 200, another status or a
\* request error or timeout (makeRequest resolves all of these), or an
\* exception thrown while the request is made.
ProbeFaults == {"slow", "failed", "threw"}

\* The probes that do not answer a fast 200, in the order they complete:
\* none, or one probe of any service with any fault.
FaultyProbes ==
    {<<>>} \cup {<<[serviceName |-> s, outcome |-> o]>> : s \in Services, o \in ProbeFaults}

\* The alert one probe pushes, as a sequence of length 0 or 1.
ProbeAlert(probe) ==
    IF probe.outcome = "slow" THEN <<WarningAlert(probe.serviceName)>>
    ELSE IF probe.outcome = "failed" THEN <<CriticalAlert(probe.serviceName)>>
    ELSE <<>>

RECURSIVE ProbeAlerts(_)
ProbeAlerts(probes) ==
    IF Len(probes) = 0 THEN <<>>
    ELSE ProbeAlert(Head(probes)) \o ProbeAlerts(Tail(probes))

\* checkServiceHealth: one result per service; healthy is statusCode === 200.
MonCheckServiceHealth ==
    /\ script = "monitor"
    /\ pc = "services"
    /\ \E probes \in FaultyProbes :
        /\ alerts' = alerts \o ProbeAlerts(probes)
        /\ serviceResults' =
            {[serviceName |-> s,
              healthy |-> \A i \in 1..Len(probes) :
                              probes[i].serviceName = s => probes[i].outcome = "slow"] :
             s \in Services}
        /\ probeOutcome' =
            [s \in Services |->
                IF \E i \in 1..Len(probes) : probes[i].serviceName = s
                THEN (CHOOSE p \in {probes[i] : i \in 1..Len(probes)} : p.serviceName = s).outcome
                ELSE "fast"]
    /\ pc' = "report"
    /\ ran' = ran \cup {"services"}
    /\ UNCHANGED <<otherVars, validatorVars, batch, rerunVars, classifierVars, productionVars>>
    /\ UNCHANGED <<violations, perfRows, perfCounts>>
    /\ UNCHANGED <<script, db, dbOpen, queryFailed, report, passResult, exitCode>>

IsHealthy_WarningsCount(recorded) == Len(recorded) = 0

\* generateReport's result: false exactly when a CRITICAL alert was recorded.
IsHealthy(recorded) == Len(SelectSeq(recorded, LAMBDA a : a.type = "CRITICAL")) = 0

\* generateReport: getTenants swallows a query failure and returns [].
MonGenerateReport ==
    /\ script = "monitor"
    /\ pc = "report"
    /\ \E fetched \in BOOLEAN :
        queryFailed' = IF fetched THEN queryFailed ELSE queryFailed \cup {"getTenants"}
    /\ report' = BoolText(IsHealthy(alerts))
    /\ pc' = "disconnect"
    /\ UNCHANGED <<otherVars, validatorVars, probeVars, rerunVars, classifierVars, productionVars, monitorVars>>
    /\ UNCHANGED <<script, db, dbOpen, ran, passResult, exitCode>>

MonDisconnect_LeavesOpen ==
    /\ script = "monitor"
    /\ pc = "disconnect"
    /\ dbOpen
    /\ dbOpen' = TRUE
    /\ passResult' = report
    /\ pc' = "exit"
    /\ UNCHANGED <<otherVars, validatorVars, probeVars, rerunVars, classifierVars, productionVars, monitorVars>>
    /\ UNCHANGED <<script, db, ran, queryFailed, report, exitCode>>

\* The finally block of runFullHealthCheck.
MonDisconnect ==
    /\ script = "monitor"
    /\ pc = "disconnect"
    /\ dbOpen
    /\ dbOpen' = FALSE
    /\ passResult' = report
    /\ pc' = "exit"
    /\ UNCHANGED <<otherVars, validatorVars, probeVars, rerunVars, classifierVars, productionVars, monitorVars>>
    /\ UNCHANGED <<script, db, ran, queryFailed, report, exitCode>>

\* main of the monitor.
MonExit ==
    /\ script = "monitor"
    /\ pc = "exit"
    /\ exitCode' = ExitStatus(passResult)
    /\ pc' = "done"
    /\ UNCHANGED <<otherVars, validatorVars, probeVars, rerunVars, classifierVars, productionVars, monitorVars>>
    /\ UNCHANGED <<script, db, dbOpen, ran, queryFailed, report, passResult>>

MonitorNext ==
    \/ MonConnect
    \/ MonCheckTenantIsolation
    \/ MonCheckTenantPerformance
    \/ MonCheckServiceHealth
    \/ MonGenerateReport
    \/ MonDisconnect
    \/ MonExit

\* ----------------------------------------------------------- specifications

\* One pass of either script over any database.
Init ==
    /\ script \in {"production", "monitor"}
    /\ db \in Databases
    /\ ClassifierIdle
    /\ PassConstructed
    /\ ElsewhereIdle

Next == ProductionNext \/ MonitorNext

Spec == Init /\ [][Next]_vars

\* One pass of the production script over a driver whose answer to the
\* isolation query is not derived from the tables: any list of distinct
\* tenants, each with a violation count of at least 1.
DriverIsolationAnswers ==
    UNION {{s \in [1..n -> [tenant_name : {TenantName(t) : t \in TenantIds},
                            user_count : {1},
                            isolation_violations : {1}]] :
                \A i, j \in 1..n : i # j => s[i].tenant_name # s[j].tenant_name} :
           n \in 0..Cardinality(TenantIds)}

DriverCheckTenantIsolation ==
    /\ script = "production"
    /\ pc = "isolation"
    /\ \/ \E rows \in DriverIsolationAnswers : ProdIsolationAnswered(rows)
       \/ ProdIsolationFailed
    /\ ProdIsolationDone

InitDriver ==
    /\ script = "production"
    /\ db \in Databases
    /\ ClassifierIdle
    /\ PassConstructed
    /\ ElsewhereIdle

NextDriver ==
    \/ ProdConnect
    \/ DriverCheckTenantIsolation
    \/ ProdCheckTenantLimits
    \/ ProdCheckDatabaseHealth
    \/ GenerateProductionReport
    \/ ProdDisconnect
    \/ ProdExit

SpecDriver == InitDriver /\ [][NextDriver]_vars

\* The classifiers alone, over counts and limits up to MaxCount and two
\* counts far above every limit.
Counts == 0..MaxCount \cup {500, 1000000}

LimitInputs ==
    {{}} \cup {{<<"users", v>>, <<"apiCalls", v>>} : v \in {-1} \cup 0..MaxCount}

EmptyDatabase ==
    [tenants |-> [t \in TenantIds |-> [status |-> "suspended", limits |-> UnlimitedLimits]],
     tenant_users |-> [r \in UserRowTypes |-> 0],
     tenant_usage_stats |-> [r \in UsageRowTypes |-> 0]]

InitClassify ==
    /\ c_count = 0
    /\ c_limits = {}
    /\ c_classified = FALSE
    /\ c_result = NoResult
    /\ script = "classifier"
    /\ db = EmptyDatabase
    /\ PassConstructed
    /\ ElsewhereIdle

\* What the log line of checkTenantPerformance prints for one dimension:
\* ${count}/${display of the limit} (${utilization}%)
UsageLine(count, max) ==
    IntToText(count) \o <<"/">> \o LimitDisplay(max)
    \o <<" ", "(">> \o PercentDisplay(Utilization(count, max)) \o <<")">>

\* Classify one (count, limits) input with the three CASE expressions and the
\* two utilization expressions.
Classify ==
    /\ \E c \in Counts, l \in LimitInputs :
        /\ c_count' = c
        /\ c_limits' = l
        /\ c_result' = [user_status |-> UserStatus(c, MaxUsers(l)),
                        api_status |-> ApiStatus(c, MaxApiCalls(l)),
                        capacity_status |-> CapacityStatus(c, l),
                        user_utilization |-> Utilization(c, MaxUsers(l)),
                        api_utilization |-> Utilization(c, MaxApiCalls(l)),
                        user_line |-> UsageLine(c, MaxUsers(l)),
                        api_line |-> UsageLine(c, MaxApiCalls(l))]
    /\ c_classified' = TRUE
    /\ UNCHANGED <<otherVars, validatorVars, probeVars, rerunVars, productionVars, monitorVars, passVars>>

NextClassify == Classify

SpecClassify == InitClassify /\ [][NextClassify]_vars

\* One pass of the monitor over a driver whose answer to the leakage query is
\* not derived from the tables: any list of distinct tenants, each with one
\* mismatched user.
DriverLeakageAnswers ==
    UNION {{s \in [1..n -> [tenant_name : {TenantName(t) : t \in TenantIds},
                            mismatched_users : {1},
                            mismatched_usage : {0}]] :
                \A i, j \in 1..n : i # j => s[i].tenant_name # s[j].tenant_name} :
           n \in 0..Cardinality(TenantIds)}

\* checkTenantIsolation of the monitor over that driver: both queries
\* answered, the leakage query throws, or the orphan query throws after the
\* leakage rows were collected.
DriverMonCheckTenantIsolation ==
    /\ script = "monitor"
    /\ pc = "isolation"
    /\ \/ \E leakRows \in DriverLeakageAnswers :
            LET found == CollectViolations(leakRows, MonitorOrphanQuery(db))
            IN /\ violations' = found
               /\ alerts' = IF Len(found) = 0 THEN alerts
                            ELSE Append(alerts, CriticalAlert("Database"))
               /\ queryFailed' = queryFailed
       \/ /\ violations' = <<[kind |-> "Isolation check failed", detail |-> "error"]>>
          /\ alerts' = alerts
          /\ queryFailed' = queryFailed \cup {"leakage"}
       \/ \E leakRows \in DriverLeakageAnswers :
            /\ violations' = Append(CollectViolations(leakRows, <<>>),
                                    [kind |-> "Isolation check failed", detail |-> "error"])
            /\ alerts' = alerts
            /\ queryFailed' = queryFailed \cup {"orphans"}
    /\ pc' = "performance"
    /\ ran' = ran \cup {"isolation"}
    /\ UNCHANGED <<otherVars, validatorVars, probeVars, rerunVars, classifierVars, productionVars>>
    /\ UNCHANGED <<perfRows, perfCounts, serviceResults>>
    /\ UNCHANGED <<script, db, dbOpen, report, passResult, exitCode>>

InitMonitorDriver ==
    /\ script = "monitor"
    /\ db \in Databases
    /\ ClassifierIdle
    /\ PassConstructed
    /\ ElsewhereIdle

NextMonitorDriver ==
    \/ MonConnect
    \/ DriverMonCheckTenantIsolation
    \/ MonCheckTenantPerformance
    \/ MonCheckServiceHealth
    \/ MonGenerateReport
    \/ MonDisconnect
    \/ MonExit

SpecMonitorDriver == InitMonitorDriver /\ [][NextMonitorDriver]_vars

\* Two passes run one after the other on the same object over the same
\* database: runProductionHealthCheck() or runFullHealthCheck() is called
\* again once the promise of the first call has settled.  Only the
\* constructor initialises this.issues and this.healthMetrics.alerts; the
\* rows, counters and results of the checks are locals of each call.
RunAgain ==
    /\ pc = "exit"
    /\ passResult \in {"true", "false"}
    /\ Len(runs) < MaxRuns - 1
    /\ runs' = Append(runs, [ready |-> passResult,
                             listed |-> IF script = "production" THEN issues ELSE alerts,
                             failed |-> queryFailed,
                             services |-> serviceResults])
    /\ pc' = "start"
    /\ ran' = {}
    /\ queryFailed' = {}
    /\ report' = "pending"
    /\ passResult' = "pending"
    /\ isolationRows' = <<>>
    /\ capacityRows' = <<>>
    /\ capacityCounts' = NoCounts
    /\ orphanCount' = -1
    /\ checks' = NoChecks
    /\ violations' = <<>>
    /\ perfRows' = <<>>
    /\ perfCounts' = NoCounts
    /\ serviceResults' = {}
    /\ probeOutcome' = <<>>
    /\ UNCHANGED <<otherVars, validatorVars, batch, classifierVars>>
    /\ UNCHANGED <<issues, alerts, script, db, dbOpen, exitCode>>

\* The databases two passes are run over: at most RerunRows rows, the second
\* tenant suspended.
RerunDatabases ==
    {d \in Databases :
        /\ BagSize(d.tenant_users) + BagSize(d.tenant_usage_stats) <= RerunRows
        /\ d.tenants[2] = [status |-> "suspended", limits |-> UnlimitedLimits]}

InitTwice ==
    /\ script \in {"production", "monitor"}
    /\ db \in RerunDatabases
    /\ ClassifierIdle
    /\ PassConstructed
    /\ ElsewhereIdle

NextTwice == Next \/ RunAgain

SpecTwice == InitTwice /\ [][NextTwice]_vars

\* One pass of either script in which every step that can be taken is
\* eventually taken: each step awaits a promise that the driver settles.
InitLifecycle ==
    /\ script \in {"production", "monitor"}
    /\ db \in RerunDatabases
    /\ ClassifierIdle
    /\ PassConstructed
    /\ ElsewhereIdle

SpecLifecycle == InitLifecycle /\ [][Next]_vars /\ WF_vars(Next)

\* ------------------------------------------- checkServiceHealth, probe by probe

\* What a probe may meet: a 200 within the response-time threshold, a slower
\* 200, another status code, a request error, a request timeout (makeRequest
\* resolves all five), or an exception thrown inside the callback's try block.
ProbeOutcomes == {"fast", "slow", "status", "error", "timeout", "threw"}

\* The branch of the callback a probe's outcome takes.
ProbeBranch(outcome) ==
    IF outcome \in {"status", "error", "timeout"} THEN "failed" ELSE outcome

\* isHealthy = response.statusCode === 200; the catch block returns healthy: false.
ProbeHealthy(outcome) == outcome \in {"fast", "slow"}

ServiceResult_SharedFlag(s, outcomes) ==
    [serviceName |-> s, healthy |-> \A t \in DOMAIN outcomes : ProbeHealthy(outcomes[t])]

\* The entry of results for service s.
ServiceResult(s, outcomes) ==
    [serviceName |-> s, healthy |-> ProbeHealthy(outcomes[s])]

\* services.map(async ...) starts the probe of every service.
StartProbes ==
    /\ script = "probes"
    /\ batch = "idle"
    /\ batch' = "running"
    /\ probeOutcome' = [s \in Services |-> "pending"]
    /\ UNCHANGED <<otherVars, validatorVars, rerunVars, classifierVars, productionVars, passVars>>
    /\ UNCHANGED monitorVars

\* The callback of one service continues after its request settled: any
\* pending probe may be the next, with any outcome.
ProbeCompletes ==
    /\ batch = "running"
    /\ \E s \in Services, o \in ProbeOutcomes :
        /\ probeOutcome[s] = "pending"
        /\ probeOutcome' = [probeOutcome EXCEPT ![s] = o]
        /\ alerts' = alerts \o ProbeAlert([serviceName |-> s, outcome |-> ProbeBranch(o)])
    /\ UNCHANGED <<otherVars, validatorVars, rerunVars, classifierVars, productionVars, passVars>>
    /\ UNCHANGED <<batch, violations, perfRows, perfCounts, serviceResults>>

\* Promise.all resolves once every callback has returned.
ProbesResolve ==
    /\ batch = "running"
    /\ \A s \in Services : probeOutcome[s] # "pending"
    /\ batch' = "resolved"
    /\ serviceResults' = {ServiceResult(s, probeOutcome) : s \in Services}
    /\ UNCHANGED <<otherVars, validatorVars, rerunVars, classifierVars, productionVars, passVars>>
    /\ UNCHANGED <<probeOutcome, alerts, violations, perfRows, perfCounts>>

InitProbes ==
    /\ script = "probes"
    /\ db = EmptyDatabase
    /\ ClassifierIdle
    /\ PassConstructed
    /\ ElsewhereIdle

NextProbes == StartProbes \/ ProbeCompletes \/ ProbesResolve

\* Every request settles: it ends, errors or times out.
SpecProbes == InitProbes /\ [][NextProbes]_vars /\ WF_vars(NextProbes)

\* ------------------------------------------------- DeploymentValidator.runTest

\* config.retryAttempts
RetryAttempts == 3

\* The name arguments runTest is called with.
TestNames ==
    {"Infrastructure Health Check", "Detailed Infrastructure Tests",
     "Production Tenant Health Check", "Auth Service Tests", "User Service Tests",
     "Platform Tests"}

\* What execSync may do: return the output, or throw because the command
\* exited non-zero, ran longer than healthCheckTimeout or could not be started.
ExecOutcomes == {"passed", "failed", "timedOut", "notStarted"}

AfterFailure_OneMore(failedAttempt) ==
    IF failedAttempt = RetryAttempts + 1 THEN "returned" ELSE "sleep"

AfterFailure_AlwaysSleeps(failedAttempt) == "sleep"

\* The catch block: the last attempt returns the failure, an earlier one sleeps.
AfterFailure(failedAttempt) ==
    IF failedAttempt = RetryAttempts THEN "returned" ELSE "sleep"

\* The for statement's test with the loop variable at next: the body runs, or
\* the loop ends and the function returns undefined.
LoopTest(next) == IF next <= RetryAttempts THEN "attempt" ELSE "returned"

\* runTest(name, command, workingDir) is called: let attempt = 1.
CallRunTest ==
    /\ script = "validator"
    /\ runTestPc = "idle"
    /\ \E name \in TestNames : runTestName' = name
    /\ attempt' = 1
    /\ runTestPc' = LoopTest(1)
    /\ runTestResult' = IF LoopTest(1) = "returned" THEN "undefined" ELSE runTestResult
    /\ UNCHANGED trace
    /\ UNCHANGED <<otherVars, passesVars>>

\* The body of the loop up to a return or the call of sleep.
ExecCommand ==
    /\ runTestPc = "attempt"
    /\ \E outcome \in ExecOutcomes :
        /\ trace' = Append(trace, outcome)
        /\ IF outcome = "passed"
           THEN /\ runTestPc' = "returned"
                /\ runTestResult' = "success"
           ELSE /\ runTestPc' = AfterFailure(attempt)
                /\ runTestResult' =
                    IF AfterFailure(attempt) = "returned" THEN "failure" ELSE runTestResult
    /\ UNCHANGED <<runTestName, attempt>>
    /\ UNCHANGED <<otherVars, passesVars>>

\* await this.sleep(config.retryDelay), then attempt++ and the loop's test.
Sleep ==
    /\ runTestPc = "sleep"
    /\ trace' = Append(trace, "sleep")
    /\ attempt' = attempt + 1
    /\ runTestPc' = LoopTest(attempt + 1)
    /\ runTestResult' = IF LoopTest(attempt + 1) = "returned" THEN "undefined" ELSE runTestResult
    /\ UNCHANGED runTestName
    /\ UNCHANGED <<otherVars, passesVars>>

InitRunTest ==
    /\ script = "validator"
    /\ db = EmptyDatabase
    /\ ClassifierIdle
    /\ PassConstructed
    /\ ElsewhereIdle

NextRunTest == CallRunTest \/ ExecCommand \/ Sleep

\* execSync returns or throws within healthCheckTimeout and the timer of
\* sleep fires: a step that can be taken is eventually taken.
SpecRunTest == InitRunTest /\ [][NextRunTest]_vars /\ WF_vars(NextRunTest)

\* ---------------------------------------- DeploymentValidator.runFullValidation

\* The runTest call each step of the validation makes: validateInfrastructure
\* makes two, validateTenantHealth one, validateApplicationTests one for each
\* of its three services.
TestOf(step) ==
    CASE step = "infra1" -> "Infrastructure Health Check"
      [] step = "infra2" -> "Detailed Infrastructure Tests"
      [] step = "tenant" -> "Production Tenant Health Check"
      [] step = "app1" -> "Auth Service Tests"
      [] step = "app2" -> "User Service Tests"
      [] step = "app3" -> "Platform Tests"

CallSteps == {"infra1", "infra2", "tenant", "app1", "app2", "app3"}

ApplicationSteps == {"app1", "app2", "app3"}

StepAfter_StopsAtFailure(step, success) ==
    IF ~success THEN "report"
    ELSE CASE step = "infra1" -> "infra2"
           [] step = "infra2" -> "tenant"
           [] step = "tenant" -> "app1"
           [] step = "app1" -> "app2"
           [] step = "app2" -> "app3"
           [] step = "app3" -> "report"

\* The statement that follows a runTest call that returned a result: no
\* validate function looks at the result before its next call.
StepAfter(step, success) ==
    CASE step = "infra1" -> "infra2"
      [] step = "infra2" -> "tenant"
      [] step = "tenant" -> "app1"
      [] step = "app1" -> "app2"
      [] step = "app2" -> "app3"
      [] step = "app3" -> "report"

OverallReady_NeedsTests(r) == r.infrastructure /\ r.tenantHealth /\ r.productionReadiness

\* generateDeploymentReport: overallReady.
OverallReady(r) == r.infrastructure /\ r.tenantHealth

\* The success of the call of the named test, as the caller's local holds it.
SuccessOf(log, name) ==
    \E i \in 1..Len(log) : log[i].name = name /\ log[i].success

\* this.results after the call made at step returned, log being the calls
\* that returned so far.
ResultsAfter(r, step, log) ==
    CASE step = "infra2" ->
            [r EXCEPT !.infrastructure =
                SuccessOf(log, TestOf("infra1")) /\ SuccessOf(log, TestOf("infra2"))]
      [] step = "tenant" -> [r EXCEPT !.tenantHealth = SuccessOf(log, TestOf("tenant"))]
      [] step = "app3" ->
            [r EXCEPT !.productionReadiness =
                \A a \in ApplicationSteps : SuccessOf(log, TestOf(a))]
      [] OTHER -> r

\* runFullValidation is called: the banner, then validateInfrastructure.
RunFullValidation ==
    /\ script = "validation"
    /\ validationPc = "start"
    /\ validationPc' = "infra1"
    /\ UNCHANGED <<testResults, validatorResults, deploymentApproved, validationExit>>
    /\ UNCHANGED <<validatorVars, passesVars, healthVars, dashboardVars, suiteVars>>

\* await this.runTest(...) of the step: let attempt = 1.
ValidationCall ==
    /\ script = "validation"
    /\ validationPc \in CallSteps
    /\ runTestPc = "idle"
    /\ runTestName' = TestOf(validationPc)
    /\ attempt' = 1
    /\ runTestPc' = LoopTest(1)
    /\ runTestResult' = IF LoopTest(1) = "returned" THEN "undefined" ELSE runTestResult
    /\ UNCHANGED trace
    /\ UNCHANGED <<otherVars, passesVars>>

\* runTest returned to the validate function that called it. Reading .success
\* of undefined throws: in validateApplicationTests the inner catch of
\* runFullValidation takes it, elsewhere the outer catch.
RunTestReturns ==
    /\ script = "validation"
    /\ validationPc \in CallSteps
    /\ runTestPc = "returned"
    /\ IF runTestResult = "undefined"
       THEN /\ validationPc' = IF validationPc \in ApplicationSteps THEN "report" ELSE "exit"
            /\ deploymentApproved' =
                IF validationPc \in ApplicationSteps THEN deploymentApproved ELSE "threw"
            /\ validatorResults' = [validatorResults EXCEPT !.productionReadiness = FALSE]
            /\ UNCHANGED testResults
       ELSE /\ testResults' =
                Append(testResults,
                       [name |-> runTestName, success |-> runTestResult = "success"])
            /\ validatorResults' = ResultsAfter(validatorResults, validationPc, testResults')
            /\ validationPc' = StepAfter(validationPc, runTestResult = "success")
            /\ UNCHANGED deploymentApproved
    /\ runTestName' = "none"
    /\ runTestPc' = "idle"
    /\ attempt' = 0
    /\ trace' = <<>>
    /\ runTestResult' = "none"
    /\ UNCHANGED validationExit
    /\ UNCHANGED <<passesVars, healthVars, dashboardVars, suiteVars>>

\* const deploymentApproved = await this.generateDeploymentReport().
GenerateDeploymentReport ==
    /\ script = "validation"
    /\ validationPc = "report"
    /\ deploymentApproved' = BoolText(OverallReady(validatorResults))
    /\ validationPc' = "exit"
    /\ UNCHANGED <<testResults, validatorResults, validationExit>>
    /\ UNCHANGED <<validatorVars, passesVars, healthVars, dashboardVars, suiteVars>>

\* process.exit(deploymentApproved ? 0 : 1), or process.exit(1) of the catch.
ValidationExit ==
    /\ script = "validation"
    /\ validationPc = "exit"
    /\ validationExit' = IF deploymentApproved = "true" THEN 0 ELSE 1
    /\ validationPc' = "done"
    /\ UNCHANGED <<testResults, validatorResults, deploymentApproved>>
    /\ UNCHANGED <<validatorVars, passesVars, healthVars, dashboardVars, suiteVars>>

InitValidation ==
    /\ script = "validation"
    /\ db = EmptyDatabase
    /\ ClassifierIdle
    /\ PassConstructed
    /\ ElsewhereIdle

NextValidation ==
    \/ RunFullValidation
    \/ ValidationCall
    \/ ExecCommand
    \/ Sleep
    \/ RunTestReturns
    \/ GenerateDeploymentReport
    \/ ValidationExit

\* execSync returns or throws within healthCheckTimeout and the timer of
\* sleep fires: a step that can be taken is eventually taken.
SpecValidation == InitValidation /\ [][NextValidation]_vars /\ WF_vars(NextValidation)

\* ------------------------------------------------- production health check

\* healthChecks in the order runHealthChecks walks it: cdn, api, dns. An
\* endpoint without expectedStatus is tested with [200].
Endpoints ==
    <<[name |-> "CloudFront Distribution", fallback |-> TRUE,
       expectedStatus |-> {200}, critical |-> TRUE],
      [name |-> "API Gateway Health", fallback |-> FALSE,
       expectedStatus |-> {200}, critical |-> TRUE],
      [name |-> "API Gateway Auth", fallback |-> FALSE,
       expectedStatus |-> {200, 403}, critical |-> TRUE],
      [name |-> "Custom Domain", fallback |-> FALSE,
       expectedStatus |-> {200}, critical |-> FALSE]>>

\* What https.get may meet: a response with a status code, an error, a timeout.
Answers ==
    {[kind |-> "response", statusCode |-> c] : c \in {200, 403, 500}}
        \cup {[kind |-> "error", statusCode |-> 0], [kind |-> "timeout", statusCode |-> 0]}

\* The object makeRequest resolves with.
MakeRequest(expectedStatus, answer) ==
    [success |-> answer.kind = "response" /\ answer.statusCode \in expectedStatus,
     outcome |-> answer.kind,
     statusCode |-> answer.statusCode]

NeedsFallback_IgnoresPrimary(result, test) == test.fallback

\* testEndpoint: if (!result.success && test.fallback).
NeedsFallback(result, test) == ~result.success /\ test.fallback

Counted_EveryFailureCritical(r, test, result) ==
    IF result.success
    THEN [r EXCEPT !.passed = @ + 1]
    ELSE [r EXCEPT !.failed = @ + 1,
                   !.critical_failures = Append(@, test.name)]

\* testEndpoint: results after the last request of the endpoint.
Counted(r, test, result) ==
    IF result.success
    THEN [r EXCEPT !.passed = @ + 1]
    ELSE IF test.critical
         THEN [r EXCEPT !.failed = @ + 1,
                        !.critical_failures = Append(@, test.name)]
         ELSE [r EXCEPT !.warnings = @ + 1]

\* What checkAWSServices may meet: aws --version throws or returns, and then
\* each listing returns names, returns nothing (Cognito: or the text None),
\* or throws.
AwsOutcomes ==
    {[cli |-> "missing", lambda |-> "none", cognito |-> "none"]}
        \cup {[cli |-> "available", lambda |-> l, cognito |-> c] :
                l \in {"found", "empty", "threw"},
                c \in {"found", "empty", "None", "threw"}}

\* checkAWSServices: results after it.
AwsCounted(r, aws) ==
    IF aws.cli = "missing"
    THEN [r EXCEPT !.warnings = @ + 1]
    ELSE [r EXCEPT
            !.passed = @ + (IF aws.lambda = "found" THEN 1 ELSE 0)
                         + (IF aws.cognito = "found" THEN 1 ELSE 0),
            !.warnings = @ + (IF aws.lambda = "found" THEN 0 ELSE 1)
                           + (IF aws.cognito = "found" THEN 0 ELSE 1)]

\* runHealthChecks: process.exit of the readiness assessment.
HealthExitStatus(r) == IF Len(r.critical_failures) = 0 THEN 0 ELSE 1

\* runHealthChecks is called: the banner, then the first endpoint.
RunHealthChecks ==
    /\ script = "healthcheck"
    /\ healthPc = "start"
    /\ healthPc' = "primary"
    /\ UNCHANGED <<checkIndex, requests, requestResult, healthResults, awsOutcome, healthExit>>
    /\ UNCHANGED <<validatorVars, passesVars, validationVars, dashboardVars, suiteVars>>

\* testEndpoint: let result = await makeRequest(test.url, ...).
RequestPrimary ==
    /\ script = "healthcheck"
    /\ healthPc = "primary"
    /\ \E answer \in Answers :
        /\ requestResult' = MakeRequest(Endpoints[checkIndex].expectedStatus, answer)
        /\ requests' =
            Append(requests,
                   [test |-> checkIndex, url |-> "primary", success |-> requestResult'.success])
        /\ healthPc' =
            IF NeedsFallback(requestResult', Endpoints[checkIndex])
            THEN "fallback" ELSE "record"
    /\ UNCHANGED <<checkIndex, healthResults, awsOutcome, healthExit>>
    /\ UNCHANGED <<validatorVars, passesVars, validationVars, dashboardVars, suiteVars>>

\* testEndpoint: result = await makeRequest(test.fallback, ...).
RequestFallback ==
    /\ script = "healthcheck"
    /\ healthPc = "fallback"
    /\ \E answer \in Answers :
        /\ requestResult' = MakeRequest(Endpoints[checkIndex].expectedStatus, answer)
        /\ requests' =
            Append(requests,
                   [test |-> checkIndex, url |-> "fallback", success |-> requestResult'.success])
    /\ healthPc' = "record"
    /\ UNCHANGED <<checkIndex, healthResults, awsOutcome, healthExit>>
    /\ UNCHANGED <<validatorVars, passesVars, validationVars, dashboardVars, suiteVars>>

\* testEndpoint: the counters, then the next endpoint of the loops or
\* checkAWSServices.
RecordEndpoint ==
    /\ script = "healthcheck"
    /\ healthPc = "record"
    /\ healthResults' = Counted(healthResults, Endpoints[checkIndex], requestResult)
    /\ requestResult' = NoRequest
    /\ checkIndex' = checkIndex + 1
    /\ healthPc' = IF checkIndex = Len(Endpoints) THEN "aws" ELSE "primary"
    /\ UNCHANGED <<requests, awsOutcome, healthExit>>
    /\ UNCHANGED <<validatorVars, passesVars, validationVars, dashboardVars, suiteVars>>

\* checkAWSServices: execSync blocks, so the function is one step.
CheckAWSServices ==
    /\ script = "healthcheck"
    /\ healthPc = "aws"
    /\ \E aws \in AwsOutcomes :
        /\ awsOutcome' = aws
        /\ healthResults' = AwsCounted(healthResults, aws)
    /\ healthPc' = "report"
    /\ UNCHANGED <<checkIndex, requests, requestResult, healthExit>>
    /\ UNCHANGED <<validatorVars, passesVars, validationVars, dashboardVars, suiteVars>>

\* runHealthChecks: the summary and the readiness assessment.
HealthReport ==
    /\ script = "healthcheck"
    /\ healthPc = "report"
    /\ healthExit' = HealthExitStatus(healthResults)
    /\ healthPc' = "done"
    /\ UNCHANGED <<checkIndex, requests, requestResult, healthResults, awsOutcome>>
    /\ UNCHANGED <<validatorVars, passesVars, validationVars, dashboardVars, suiteVars>>

InitHealth ==
    /\ script = "healthcheck"
    /\ db = EmptyDatabase
    /\ ClassifierIdle
    /\ PassConstructed
    /\ ElsewhereIdle

NextHealth ==
    \/ RunHealthChecks
    \/ RequestPrimary
    \/ RequestFallback
    \/ RecordEndpoint
    \/ CheckAWSServices
    \/ HealthReport

\* Every request settles (response, error or the timeout option) and
\* execSync returns or throws: a step that can be taken is eventually taken.
SpecHealth == InitHealth /\ [][NextHealth]_vars /\ WF_vars(NextHealth)

\* ---------------------------------------------------------------- dashboard

\* The runs of runFullValidation a behaviour starts: the one of app.listen's
\* callback, those of setInterval and those of POST /api/trigger-validation.
MaxDashboardRuns == 3

InfrastructureCommand == "node scripts/production-health-check.js"

TenantCommand == "node scripts/tenant-health-production.js"

\* What execSync may do: return the output, or throw because the command
\* exited non-zero or could not be started.
CommandOutcomes == {"succeeded", "failed"}

CatchBlock_KeepsReady(d) ==
    [d EXCEPT !.infrastructure = "critical",
              !.tenantHealth = "critical",
              !.tests = "critical"]

\* runFullValidation: the catch block.
CatchBlock(d) ==
    [d EXCEPT !.infrastructure = "critical",
              !.tenantHealth = "critical",
              !.tests = "critical",
              !.overall.ready = FALSE]

\* runFullValidation: the assignments that follow the second execSync.
AllHealthy(d) ==
    [d EXCEPT !.tenantHealth = "healthy",
              !.tests = "healthy",
              !.overall = [status |-> "ready", ready |-> TRUE]]

\* runFullValidation is called. No run starts while another is between its
\* first statement and its first await: execSync blocks the event loop.
DashStart ==
    /\ script = "dashboard"
    /\ dashPc = "idle"
    /\ dashRuns < MaxDashboardRuns
    /\ dashRuns' = dashRuns + 1
    /\ clock' = clock + 1
    /\ commandsRun' = <<>>
    /\ notification' = "none"
    /\ dashPc' = "infra"
    /\ UNCHANGED <<deploymentResults, emailTransporter, awaitingMail>>
    /\ UNCHANGED <<validatorVars, passesVars, validationVars, healthVars, suiteVars>>

\* execSync of the infrastructure health check, then the assignment of
\* deploymentResults.infrastructure or the catch block.
DashInfrastructure ==
    /\ script = "dashboard"
    /\ dashPc = "infra"
    /\ \E outcome \in CommandOutcomes :
        /\ commandsRun' =
            Append(commandsRun, [command |-> InfrastructureCommand, outcome |-> outcome])
        /\ IF outcome = "succeeded"
           THEN /\ deploymentResults' = [deploymentResults EXCEPT !.infrastructure = "healthy"]
                /\ dashPc' = "tenant"
           ELSE /\ deploymentResults' = CatchBlock(deploymentResults)
                /\ dashPc' = "stamp"
    /\ UNCHANGED <<emailTransporter, notification, awaitingMail, clock, dashRuns>>
    /\ UNCHANGED <<validatorVars, passesVars, validationVars, healthVars, suiteVars>>

\* execSync of the tenant health check, then the assignments up to
\* deploymentResults.overall or the catch block.
DashTenantHealth ==
    /\ script = "dashboard"
    /\ dashPc = "tenant"
    /\ \E outcome \in CommandOutcomes :
        /\ commandsRun' = Append(commandsRun, [command |-> TenantCommand, outcome |-> outcome])
        /\ deploymentResults' =
            IF outcome = "succeeded"
            THEN AllHealthy(deploymentResults) ELSE CatchBlock(deploymentResults)
    /\ dashPc' = "stamp"
    /\ UNCHANGED <<emailTransporter, notification, awaitingMail, clock, dashRuns>>
    /\ UNCHANGED <<validatorVars, passesVars, validationVars, healthVars, suiteVars>>

\* deploymentResults.lastUpdate = new Date().toISOString().
DashStamp ==
    /\ script = "dashboard"
    /\ dashPc = "stamp"
    /\ deploymentResults' = [deploymentResults EXCEPT !.lastUpdate = clock]
    /\ dashPc' = "notify"
    /\ UNCHANGED <<commandsRun, emailTransporter, notification, awaitingMail, clock, dashRuns>>
    /\ UNCHANGED <<validatorVars, passesVars, validationVars, healthVars, suiteVars>>

\* await sendEmailNotification(): without a transporter it returns and the
\* run ends; with one the run is suspended at sendMail, holding isHealthy.
DashNotify ==
    /\ script = "dashboard"
    /\ dashPc = "notify"
    /\ IF emailTransporter
       THEN /\ notification' = "sending"
            /\ awaitingMail' =
                awaitingMail \cup
                    {[run |-> dashRuns, isHealthy |-> deploymentResults.overall.ready]}
       ELSE /\ notification' = "skipped"
            /\ UNCHANGED awaitingMail
    /\ dashPc' = "idle"
    /\ UNCHANGED <<deploymentResults, commandsRun, emailTransporter, clock, dashRuns>>
    /\ UNCHANGED <<validatorVars, passesVars, validationVars, healthVars, suiteVars>>

\* sendMail of a suspended run resolves or rejects; either is only logged,
\* and the run ends.
MailSettles ==
    /\ script = "dashboard"
    /\ dashPc = "idle"
    /\ \E m \in awaitingMail : awaitingMail' = awaitingMail \ {m}
    /\ UNCHANGED <<dashPc, deploymentResults, commandsRun, emailTransporter, notification,
                   clock, dashRuns>>
    /\ UNCHANGED <<validatorVars, passesVars, validationVars, healthVars, suiteVars>>

InitDashboard ==
    /\ script = "dashboard"
    /\ db = EmptyDatabase
    /\ ClassifierIdle
    /\ PassConstructed
    /\ runs = <<>>
    /\ probeOutcome = <<>>
    /\ batch = "idle"
    /\ runTestName = "none"
    /\ runTestPc = "idle"
    /\ attempt = 0
    /\ trace = <<>>
    /\ runTestResult = "none"
    /\ ValidatorConstructed
    /\ HealthLoaded
    /\ DashboardLoaded
    /\ emailTransporter \in BOOLEAN
    /\ SuiteConstructed

NextDashboard ==
    \/ DashStart
    \/ DashInfrastructure
    \/ DashTenantHealth
    \/ DashStamp
    \/ DashNotify
    \/ MailSettles

\* execSync returns or throws and the statements of a run follow one another:
\* a run that started reaches its notification step.
SpecDashboard ==
    InitDashboard
        /\ [][NextDashboard]_vars
        /\ WF_vars(DashInfrastructure \/ DashTenantHealth \/ DashStamp \/ DashNotify)

\* ------------------------------------------------------ integration test suite

\* The tests of runAllTests in the order of its five testGroup calls, with
\* the name the test records itself under. The two placeholders make no
\* request and cannot throw.
SuiteTests ==
    <<[method |-> "testAPIGatewayHealth", title |-> "API Gateway Health",
       group |-> "Infrastructure Health", throws |-> TRUE],
      [method |-> "testCloudFrontDistribution", title |-> "CloudFront Distribution",
       group |-> "Infrastructure Health", throws |-> TRUE],
      [method |-> "testS3DirectAccess", title |-> "S3 Direct Access",
       group |-> "Infrastructure Health", throws |-> TRUE],
      [method |-> "testLambdaFunctions", title |-> "Lambda Functions",
       group |-> "Infrastructure Health", throws |-> TRUE],
      [method |-> "testCoreHealthEndpoint", title |-> "Core Health Endpoint",
       group |-> "API Endpoints", throws |-> TRUE],
      [method |-> "testAPIGatewayRouting", title |-> "API Gateway Routing",
       group |-> "API Endpoints", throws |-> TRUE],
      [method |-> "testErrorHandling", title |-> "Error Handling",
       group |-> "API Endpoints", throws |-> TRUE],
      [method |-> "testStaticAssets", title |-> "Static Assets",
       group |-> "Frontend Deployment", throws |-> TRUE],
      [method |-> "testIndexHTML", title |-> "Index HTML",
       group |-> "Frontend Deployment", throws |-> TRUE],
      [method |-> "testModuleFederationAssets", title |-> "Module Federation Assets",
       group |-> "Frontend Deployment", throws |-> TRUE],
      [method |-> "testTenantRouting", title |-> "Tenant Routing",
       group |-> "Multitenant Functionality", throws |-> FALSE],
      [method |-> "testTenantIsolation", title |-> "Tenant Isolation",
       group |-> "Multitenant Functionality", throws |-> FALSE],
      [method |-> "testResponseTimes", title |-> "Response Times",
       group |-> "Performance & Reliability", throws |-> TRUE],
      [method |-> "testLoadHandling", title |-> "Load Handling",
       group |-> "Performance & Reliability", throws |-> TRUE]>>

\* What awaiting the test may do.
TestOutcomes(test) == IF test.throws THEN {"returns", "throws"} ELSE {"returns"}

\* The entries a test adds to this.results: a test that returns has called
\* recordResult once with true on the path it returned by; for one that
\* throws, testGroup's catch records false under test.name, which is the
\* empty string for the arrow functions of the lists.
Recorded(test, outcome) ==
    IF outcome = "returns"
    THEN <<[test |-> test.title, passed |-> TRUE]>>
    ELSE <<[test |-> "", passed |-> FALSE]>>

SuiteAfter_ThrowAborts(index, outcome) ==
    IF outcome = "throws" \/ index = Len(SuiteTests) THEN "report" ELSE "running"

\* What follows a test: the next test of the group or of the next group, and
\* generateReport after the last.
SuiteAfter(index, outcome) == IF index = Len(SuiteTests) THEN "report" ELSE "running"

\* Math.round of the quotient num / den of non-negative integers.
MathRound(num, den) == (2 * num + den) \div (2 * den)

\* generateReport: successRate, NaN standing as -1 for an empty results.
SuccessRate(r) ==
    IF Len(r) = 0
    THEN -1
    ELSE MathRound(100 * Cardinality({i \in 1..Len(r) : r[i].passed}), Len(r))

\* generateReport: process.exit.
SuiteExitStatus(r) == IF SuccessRate(r) >= 80 THEN 0 ELSE 1

\* runAllTests is called.
RunAllTests ==
    /\ script = "suite"
    /\ suitePc = "start"
    /\ suitePc' = "running"
    /\ UNCHANGED <<suiteIndex, suiteResults, suiteOutcomes, suiteExit>>
    /\ UNCHANGED <<validatorVars, passesVars, validationVars, healthVars, dashboardVars>>

\* testGroup: one iteration of its loop.
RunSuiteTest ==
    /\ script = "suite"
    /\ suitePc = "running"
    /\ \E outcome \in TestOutcomes(SuiteTests[suiteIndex]) :
        /\ suiteOutcomes' = Append(suiteOutcomes, outcome)
        /\ suiteResults' = suiteResults \o Recorded(SuiteTests[suiteIndex], outcome)
        /\ suitePc' = SuiteAfter(suiteIndex, outcome)
    /\ suiteIndex' = suiteIndex + 1
    /\ UNCHANGED suiteExit
    /\ UNCHANGED <<validatorVars, passesVars, validationVars, healthVars, dashboardVars>>

\* generateReport.
SuiteGenerateReport ==
    /\ script = "suite"
    /\ suitePc = "report"
    /\ suiteExit' = SuiteExitStatus(suiteResults)
    /\ suitePc' = "done"
    /\ UNCHANGED <<suiteIndex, suiteResults, suiteOutcomes>>
    /\ UNCHANGED <<validatorVars, passesVars, validationVars, healthVars, dashboardVars>>

InitSuite ==
    /\ script = "suite"
    /\ db = EmptyDatabase
    /\ ClassifierIdle
    /\ PassConstructed
    /\ ElsewhereIdle

NextSuite == RunAllTests \/ RunSuiteTest \/ SuiteGenerateReport

SpecSuite == InitSuite /\ [][NextSuite]_vars

\* ------------------------------------------------------------------- claims

\* The limit the classified input configures for both dimensions: the
\* integer of the limits object, or the default when the object has none.
InputLimit ==
    IF c_limits = {} THEN 999999
    ELSE (CHOOSE p \in c_limits : p[1] = "users")[2]

\* C1: a tenant whose configured limit is -1 is classified UNLIMITED for
\* every count, by the users and apiCalls dimensions of the monitor and by
\* the users dimension of the production script.
C1_UnlimitedForEveryCount ==
    (c_classified /\ InputLimit = -1) =>
        /\ c_result.user_status = "UNLIMITED"
        /\ c_result.api_status = "UNLIMITED"
        /\ c_result.capacity_status = "UNLIMITED"

C1_Witness ==
    /\ c_classified
    /\ InputLimit = -1
    /\ c_count = 1000000
    /\ c_result.capacity_status = "UNLIMITED"
    /\ c_result.user_status = "UNLIMITED"

\* The status the monitor's policy gives a count under a limit > 0, with the
\* bound limit * 0.8 written as 4 * limit / 5.
MonitorPolicy(count, limit) ==
    IF count >= limit THEN "EXCEEDED"
    ELSE IF 5 * count > 4 * limit THEN "HIGH"
    ELSE "OK"

C2_Thresholds ==
    (c_classified /\ InputLimit > 0) =>
        /\ c_result.user_status = MonitorPolicy(c_count, InputLimit)
        /\ c_result.api_status = MonitorPolicy(c_count, InputLimit)

C2_Monotone ==
    (c_classified /\ c_limits' = c_limits /\ InputLimit > 0 /\ c_count' >= c_count) =>
        /\ Severity(c_result'.user_status) >= Severity(c_result.user_status)
        /\ Severity(c_result'.api_status) >= Severity(c_result.api_status)

\* C2: in the monitor's classifier, for every limit > 0 and both dimensions,
\* count >= limit is EXCEEDED, limit * 0.8 < count < limit is HIGH and
\* count <= limit * 0.8 is OK; and under a fixed limit the severity never
\* decreases from one classified count to a larger one.
C2_MonitorPolicy == []C2_Thresholds /\ [][C2_Monotone]_vars

C2_Witness ==
    /\ c_classified
    /\ InputLimit = 10
    /\ c_count = 9
    /\ c_result.user_status = "HIGH"
    /\ c_result.api_status = "HIGH"

\* The status the claim gives the production variant: the monitor's policy
\* with the bound limit * 0.9.
ProductionPolicy(count, limit) ==
    IF count >= limit THEN "EXCEEDED"
    ELSE IF 10 * count > 9 * limit THEN "HIGH"
    ELSE "OK"

\* C3: for every finite limit > 0 the production variant gives EXCEEDED for
\* current_users >= max_users (the tie included), HIGH between 0.9 * max_users
\* and max_users, OK otherwise; so it is EXCEEDED exactly where the monitor
\* variant is.
C3_SamePolicyAsMonitor ==
    (c_classified /\ InputLimit > 0) =>
        /\ c_result.capacity_status = ProductionPolicy(c_count, InputLimit)
        /\ (c_result.capacity_status = "EXCEEDED") <=> (c_result.user_status = "EXCEEDED")

PerfIndexes == 1..Len(perfRows)

PerfExceeded(i) == perfRows[i].user_status = "EXCEEDED" \/ perfRows[i].api_status = "EXCEEDED"

PerfHigh(i) == perfRows[i].user_status = "HIGH" \/ perfRows[i].api_status = "HIGH"

\* checkTenantPerformance has returned and its query was answered.
PerformanceChecked ==
    script = "monitor" /\ "performance" \in ran /\ "performance" \notin queryFailed

\* C4: checkTenantPerformance evaluates one row per active tenant and counts
\* each in exactly one bucket: critical if a dimension is EXCEEDED, otherwise
\* warning if a dimension is HIGH, otherwise healthy; the three counters add
\* up to the number of rows.
C4_OneBucketPerTenant ==
    PerformanceChecked =>
        /\ {perfRows[i].id : i \in PerfIndexes} = ActiveTenantIds(db)
        /\ Len(perfRows) = Cardinality(ActiveTenantIds(db))
        /\ perfCounts.critical = Cardinality({i \in PerfIndexes : PerfExceeded(i)})
        /\ perfCounts.warning = Cardinality({i \in PerfIndexes : ~PerfExceeded(i) /\ PerfHigh(i)})
        /\ perfCounts.healthy = Cardinality({i \in PerfIndexes : ~PerfExceeded(i) /\ ~PerfHigh(i)})
        /\ perfCounts.healthy + perfCounts.warning + perfCounts.critical = Len(perfRows)

\* Two tenants evaluated: one UNLIMITED in both dimensions and counted
\* healthy, the other EXCEEDED in one dimension, HIGH in the other and
\* counted critical.
C4_Witness ==
    /\ PerformanceChecked
    /\ Len(perfRows) = 2
    /\ perfCounts = [healthy |-> 1, warning |-> 0, critical |-> 1]
    /\ \E i \in PerfIndexes :
        perfRows[i].user_status = "UNLIMITED" /\ perfRows[i].api_status = "UNLIMITED"
    /\ \E i \in PerfIndexes : PerfExceeded(i) /\ PerfHigh(i)

\* A production pass that reached its report with every query answered.
ReportedAllAnswered ==
    script = "production" /\ report # "pending" /\ queryFailed = {}

NoIsolationViolation == Len(isolationRows) = 0

NoTenantExceeded ==
    \A i \in 1..Len(capacityRows) : capacityRows[i].capacity_status # "EXCEEDED"

\* C5 as stated: when every query succeeds, productionReady is true if and
\* only if the isolation check found no violation and no tenant is EXCEEDED.
C5_ReadyIffNoViolationNoExceeded ==
    ReportedAllAnswered =>
        ((report = "true") <=> (NoIsolationViolation /\ NoTenantExceeded))

\* C5 amended: when every query succeeds, productionReady is true if and only
\* if the isolation check found no violation, no tenant is EXCEEDED and at
\* least one tenant is active.
C5_ReadyIffAlsoAnActiveTenant ==
    ReportedAllAnswered =>
        ((report = "true") <=>
            (NoIsolationViolation /\ NoTenantExceeded /\ ActiveTenantCount(db) > 0))

C5_Witness ==
    /\ ReportedAllAnswered
    /\ report = "true"
    /\ Len(capacityRows) = 2
    /\ OrphanUserCount(db) = 0

NoCriticalAlert == \A i \in 1..Len(alerts) : alerts[i].type = "WARNING"

\* The monitor's half of C6: a run whose alerts are all WARNING reports healthy.
C6_MonitorWarningsPass ==
    (script = "monitor" /\ report # "pending" /\ NoCriticalAlert) => report = "true"

\* C6 as stated: with no isolation violation, no EXCEEDED tenant and no failed
\* query, any number of tenants in HIGH state leaves productionReady true and
\* the production script exits 0; a monitor run whose only alerts are WARNING
\* reports healthy.
C6_WarningsNeverBlock ==
    /\ (ReportedAllAnswered /\ NoIsolationViolation /\ NoTenantExceeded) =>
            (report = "true" /\ (pc = "done" => exitCode = 0))
    /\ C6_MonitorWarningsPass

\* C6 amended: the same, for a production pass over at least one active tenant.
C6_WarningsNeverBlockActiveTenants ==
    /\ (/\ ReportedAllAnswered
        /\ NoIsolationViolation
        /\ NoTenantExceeded
        /\ ActiveTenantCount(db) > 0) =>
            (report = "true" /\ (pc = "done" => exitCode = 0))
    /\ C6_MonitorWarningsPass

\* Both tenants in HIGH state, the pass ready and exited 0.
C6_Witness ==
    /\ ReportedAllAnswered
    /\ Len(capacityRows) = 2
    /\ \A i \in 1..Len(capacityRows) : capacityRows[i].capacity_status = "HIGH"
    /\ capacityCounts.warning = 2
    /\ pc = "done"
    /\ exitCode = 0

\* C7: the production process exits 0 exactly when the pass ended with
\* productionReady = true, and 1 in every other outcome: not ready, a failed
\* check, a failed connection.
C7_ExitStatus ==
    (script = "production" /\ pc = "done") =>
        /\ exitCode \in {0, 1}
        /\ (exitCode = 0) <=> (report = "true")
        /\ (queryFailed # {}) => exitCode = 1
        /\ ("isolation" \notin ran) => exitCode = 1

C7_Witness ==
    /\ script = "production"
    /\ pc = "done"
    /\ exitCode = 0
    /\ report = "true"
    /\ ran = {"isolation", "capacity", "database"}

\* A pass that connected, got an answer to every query and has exited.
PassCompletedAllAnswered ==
    pc = "done" /\ passResult # "threw" /\ queryFailed = {}

\* What either script reports about orphaned tenant_users rows: the
\* production script logs the count it computed, the monitor collects a
\* violation for the table.
OrphanedUsersReported ==
    IF script = "production" THEN orphanCount > 0
    ELSE \E i \in 1..Len(violations) :
            violations[i] = [kind |-> "orphaned records", detail |-> "tenant_users"]

\* C8: in every pass over a database that holds a tenant_users row whose
\* tenant_id matches no tenant, that row is detected and reported as
\* orphaned, whatever the other data is.
C8_OrphansAlwaysDetected ==
    (PassCompletedAllAnswered /\ OrphanUserCount(db) > 0) => OrphanedUsersReported

\* C9: a tenant_users row that references no tenant blocks readiness:
\* productionReady is false and the production script exits 1.
C9_OrphanBlocksReadiness ==
    (script = "production" /\ PassCompletedAllAnswered /\ OrphanUserCount(db) > 0) =>
        (report = "false" /\ exitCode = 1)

\* checkTenantIsolation has returned and its query was answered.
IsolationAnswered ==
    script = "production" /\ "isolation" \in ran /\ "isolation" \notin queryFailed

\* The issues recorded for isolation violations, in the order recorded.
ViolationIssues == SelectSeq(issues, LAMBDA i : i.kind = "Tenant isolation violation")

\* C10: whenever the isolation query returns at least one tenant,
\* checkTenantIsolation returns false and records one issue per returned
\* tenant, and the pass ends with productionReady = false; it returns true
\* only when the query returned no rows.
C10_ZeroTolerance ==
    /\ (IsolationAnswered /\ Len(isolationRows) > 0) =>
        /\ checks.isolation = "false"
        /\ Len(ViolationIssues) = Len(isolationRows)
        /\ \A i \in 1..Len(isolationRows) :
            ViolationIssues[i].detail = isolationRows[i].tenant_name
        /\ report # "true"
        /\ (pc = "done" => report = "false" /\ exitCode = 1)
    /\ (script = "production" /\ checks.isolation = "true") =>
        (IsolationAnswered /\ Len(isolationRows) = 0)

\* The driver returned two violating tenants and the pass ended not ready.
C10_Witness ==
    /\ IsolationAnswered
    /\ Len(isolationRows) = 2
    /\ checks.isolation = "false"
    /\ Len(ViolationIssues) = 2
    /\ pc = "done"
    /\ report = "false"
    /\ exitCode = 1

\* The data violations checkTenantIsolation collected: mismatch rows and
\* tables with orphaned records, not the entry of its catch block.
DataViolations ==
    SelectSeq(violations, LAMBDA v : v.kind \in {"violations", "orphaned records"})

ProductionChecks == {"isolation", "capacity", "database"}

\* C12: if connecting fails, the production pass aborts entirely: the step
\* that fails to connect rejects the pass, and a rejected pass has executed
\* no check, generated no report, recorded no issue and exits with status 1.
C12_ConnectFailureAborts ==
    /\ [][(script = "production" /\ pc = "start" /\ pc' # "start" /\ ~dbOpen') =>
            (pc' = "exit" /\ passResult' = "threw")]_vars
    /\ []((script = "production" /\ passResult = "threw") =>
            /\ ran = {}
            /\ queryFailed = {}
            /\ checks = NoChecks
            /\ report = "pending"
            /\ issues = <<>>
            /\ ~dbOpen
            /\ pc \in {"exit", "done"}
            /\ (pc = "done" => exitCode = 1))

C12_Witness ==
    /\ script = "production"
    /\ passResult = "threw"
    /\ ~dbOpen
    /\ ran = {}
    /\ pc = "done"
    /\ exitCode = 1

\* The check whose query is q.
CheckOfQuery(q) == IF q \in {"tenantCount", "orphans"} THEN "database" ELSE q

\* C13: a query failure is localized to its check: the check whose query
\* threw has returned false without throwing out of the pass, and by the
\* time the pass leaves its try block every check was executed and the
\* report was generated.
C13_QueryFailureLocalized ==
    (script = "production" /\ queryFailed # {}) =>
        /\ passResult # "threw"
        /\ \A q \in queryFailed :
            /\ CheckOfQuery(q) \in ran
            /\ checks[CheckOfQuery(q)] = "false"
        /\ (pc \in {"disconnect", "exit", "done"}) =>
            (ran = ProductionChecks /\ report = "false")
        /\ (pc = "report") => ran = ProductionChecks

\* The isolation query threw; the capacity and database checks still ran and
\* succeeded, and the report was generated.
C13_Witness ==
    /\ script = "production"
    /\ queryFailed = {"isolation"}
    /\ ran = ProductionChecks
    /\ checks = [isolation |-> "false", capacity |-> "true", database |-> "true"]
    /\ Len(capacityRows) > 0
    /\ report = "false"
    /\ pc = "done"

\* C14: a check-level failure always yields a non-zero exit: in every pass
\* of either script in which the query of the isolation check or of the
\* capacity / performance check fails, the run ends not ready / unhealthy
\* and the process exits with status 1.
C14_CheckFailureExitsNonZero ==
    (/\ pc = "done"
     /\ queryFailed \cap {"isolation", "capacity", "leakage", "orphans", "performance"} # {}) =>
        (report = "false" /\ exitCode = 1)


\* The list the report of the current pass prints.
Listed == IF script = "production" THEN issues ELSE alerts

\* The current pass has settled and met what the pass before it met: the
\* same queries answered and every service probe a fast 200.
SettledAsBefore ==
    /\ Len(runs) > 0
    /\ pc \in {"exit", "done"}
    /\ passResult \in {"true", "false"}
    /\ queryFailed = runs[Len(runs)].failed
    /\ serviceResults = runs[Len(runs)].services
    /\ \A r \in serviceResults : r.healthy
    /\ \A i \in 1..Len(alerts) : alerts[i].service \notin Services

\* C15: running the evaluation twice in a row on the same object over an
\* unchanged database gives an identical report both times: the same
\* productionReady / isHealthy value and the same list of issues or alerts.
C15_Idempotent ==
    SettledAsBefore =>
        /\ passResult = runs[Len(runs)].ready
        /\ Listed = runs[Len(runs)].listed


\* The checks of the monitor's pass.
MonitorChecks == {"isolation", "performance", "services"}

\* A step that issues a query: a check or the report.
QueryStep == ran' # ran \/ queryFailed' # queryFailed \/ report' # report

\* C16: each pass follows Idle -> Connected -> Evaluated -> Reported ->
\* Disconnected: a query is issued only while the connection is open, hence
\* neither before connect succeeded nor after disconnect; the report is
\* generated only after all checks have finished; the connection is closed
\* only once the report exists and stays closed; and once the connection was
\* established, disconnect is eventually performed.
C16_Lifecycle ==
    /\ [][QueryStep => (dbOpen /\ dbOpen')]_vars
    /\ [][(report' # report) =>
            (ran = IF script = "production" THEN ProductionChecks ELSE MonitorChecks)]_vars
    /\ [][(dbOpen /\ ~dbOpen') => (report # "pending" /\ pc' = "exit")]_vars
    /\ []((pc \in {"exit", "done"}) => ~dbOpen)
    /\ (dbOpen ~> ~dbOpen)

\* A monitor pass that went through the whole lifecycle.
C16_Witness ==
    /\ script = "monitor"
    /\ pc = "done"
    /\ ran = MonitorChecks
    /\ "performance" \in queryFailed
    /\ report # "pending"
    /\ ~dbOpen


\* The services whose probe has completed.
ProbedServices == {s \in DOMAIN probeOutcome : probeOutcome[s] # "pending"}

NearestPercent(u, n, d) ==
    /\ 2 * (u * d - 100 * n) <= d
    /\ 2 * (100 * n - u * d) <= d

\* The text has a decimal digit.
HasDigit(text) == \E i \in 1..Len(text) : text[i] \in {DigitChars[j] : j \in 1..Len(DigitChars)}

\* The part of a usage line from its opening parenthesis on.
PercentPart(line) ==
    LET open == CHOOSE i \in 1..Len(line) : line[i] = "("
    IN SubSeq(line, open, Len(line))

\* C18: for every dimension with a finite limit the reported utilization
\* percentage is count / limit * 100 rounded to the nearest integer; for a
\* dimension whose limit is -1 no numeric percentage is reported.
C18_UtilizationReported ==
    /\ (c_classified /\ InputLimit > 0) =>
        /\ NearestPercent(c_result.user_utilization, c_count, InputLimit)
        /\ NearestPercent(c_result.api_utilization, c_count, InputLimit)
        /\ PercentPart(c_result.user_line) =
                <<"(">> \o IntToText(c_result.user_utilization) \o <<"%", ")">>
    /\ (c_classified /\ InputLimit = -1) =>
        /\ ~HasDigit(PercentPart(c_result.user_line))
        /\ ~HasDigit(PercentPart(c_result.api_line))


\* The commands executed so far: the trace without its sleeps.
Executions == SelectSeq(trace, LAMBDA e : e # "sleep")

\* C19: runTest executes its command at most retryAttempts (3) times; no
\* command is executed after one that succeeded, and a success returns
\* success = true at once; it returns success = false if and only if all 3
\* attempts failed.
C19_AtMostThreeAttempts ==
    /\ Len(Executions) <= RetryAttempts
    /\ \A i \in 1..Len(trace) : trace[i] = "passed" =>
        (i = Len(trace) /\ runTestPc = "returned" /\ runTestResult = "success")
    /\ (runTestPc = "returned") =>
        /\ (runTestResult = "success") <=> (trace[Len(trace)] = "passed")
        /\ (runTestResult = "failure") <=>
            (/\ Len(Executions) = RetryAttempts
             /\ \A i \in 1..Len(Executions) : Executions[i] # "passed")
        /\ runTestResult \in {"success", "failure"}

\* The second attempt succeeded: two executions, no third.
C19_Witness ==
    /\ runTestPc = "returned"
    /\ trace = <<"failed", "sleep", "passed">>
    /\ runTestResult = "success"

\* Every failed attempt but the last is followed by one sleep, and there is
\* no other sleep.
SleepsBetweenAttempts ==
    /\ \A i \in 1..Len(trace) :
        (trace[i] = "sleep") =>
            /\ i > 1
            /\ trace[i - 1] \notin {"sleep", "passed"}
            /\ Len(SelectSeq(SubSeq(trace, 1, i), LAMBDA e : e # "sleep")) < RetryAttempts
    /\ \A i \in 1..(Len(trace) - 1) :
        (trace[i] # "sleep") => (trace[i] # "passed" /\ trace[i + 1] = "sleep")

\* C20: runTest always terminates with a defined result object, for every
\* sequence of attempt outcomes, and waits retryDelay exactly once after
\* each failed attempt except the last: never after a successful attempt and
\* never after the final failed attempt.
C20_TerminatesWithResult ==
    /\ ((runTestPc = "attempt") ~> (runTestPc = "returned"))
    /\ []((runTestPc = "returned") =>
            /\ runTestResult \in {"success", "failure"}
            /\ trace[Len(trace)] # "sleep"
            /\ Len(trace) = 2 * Len(Executions) - 1)
    /\ []SleepsBetweenAttempts

\* Three failed attempts, two sleeps, the failure returned.
C20_Witness ==
    /\ runTestPc = "returned"
    /\ trace = <<"failed", "sleep", "timedOut", "sleep", "notStarted">>
    /\ runTestResult = "failure"


\* C28: for every content of the three tables the mismatch counts of the
\* isolation queries (isolation_violations, mismatched_users,
\* mismatched_usage) are 0 for every tenant, so an answered isolation query
\* of the production script returns no row and reports no violation, and
\* the monitor never collects a mismatch violation.
C28_MismatchAlwaysZero ==
    /\ \A t \in TenantIds :
        /\ IsolationRow(db, t).isolation_violations = 0
        /\ LeakageRow(db, t).mismatched_users = 0
        /\ LeakageRow(db, t).mismatched_usage = 0
    /\ (script = "production" /\ IsolationAnswered) =>
        (isolationRows = <<>> /\ checks.isolation = "true" /\ Len(ViolationIssues) = 0)
    /\ \A i \in 1..Len(violations) : violations[i].kind # "violations"

\* The isolation query was answered over a database in which an active
\* tenant has a user and another user row carries a tenant id that no
\* tenant has: no violation.
C28_Witness ==
    /\ script = "production"
    /\ IsolationAnswered
    /\ checks.isolation = "true"
    /\ db.tenants[1].status = "active"
    /\ db.tenant_users[[tenant_id |-> 1, status |-> "active"]] = 1
    /\ db.tenant_users[[tenant_id |-> 99, status |-> "active"]] = 1


\* The alerts recorded for service s with the given type.
AlertsOf(s, type) ==
    SelectSeq(alerts, LAMBDA a : a.service = s /\ a.type = type)

\* C26: the monitor's generateReport returns false, and the process exits 1,
\* if and only if at least one CRITICAL alert was recorded during the run; a
\* probe that answers with another status than 200 or with an error records
\* a CRITICAL alert, and a probe that answers 200 slower than the threshold
\* records only a WARNING alert.
C26_CriticalAlertsDecide ==
    /\ (script = "monitor" /\ report # "pending") =>
        /\ (report = "false") <=> ~NoCriticalAlert
        /\ (pc = "done") => ((exitCode = 1) <=> ~NoCriticalAlert)
    /\ (script = "monitor" /\ "services" \in ran) =>
        \A s \in Services :
            /\ (probeOutcome[s] = "failed") =>
                (Len(AlertsOf(s, "CRITICAL")) = 1 /\ Len(AlertsOf(s, "WARNING")) = 0)
            /\ (probeOutcome[s] = "slow") =>
                (Len(AlertsOf(s, "WARNING")) = 1 /\ Len(AlertsOf(s, "CRITICAL")) = 0)

\* A run whose only alert is the WARNING of a slow probe: healthy, exit 0.
C26_Witness ==
    /\ script = "monitor"
    /\ pc = "done"
    /\ "services" \in ran
    /\ probeOutcome["payments"] = "slow"
    /\ alerts = <<WarningAlert("payments")>>
    /\ report = "true"
    /\ exitCode = 0

\* The names runTest is called with, in the order of the source.
CallOrder ==
    <<"Infrastructure Health Check", "Detailed Infrastructure Tests",
      "Production Tenant Health Check", "Auth Service Tests", "User Service Tests",
      "Platform Tests">>

\* The call of the named test returned success.
Succeeded(name) ==
    \E i \in 1..Len(testResults) : testResults[i].name = name /\ testResults[i].success

\* The call of the named test returned failure.
Failed(name) ==
    \E i \in 1..Len(testResults) : testResults[i].name = name /\ ~testResults[i].success

\* C21: the deployment is approved, and the process exits 0, if and only if
\* both infrastructure commands and the tenant health command succeeded; what
\* the three application test suites did has no part in it.
C21_ApprovalIgnoresApplicationTests ==
    /\ deploymentApproved \in {"true", "false"} =>
        (deploymentApproved = "true" <=>
            /\ Succeeded(CallOrder[1])
            /\ Succeeded(CallOrder[2])
            /\ Succeeded(CallOrder[3]))
    /\ validationExit # -1 =>
        (validationExit = 0 <=>
            /\ Succeeded(CallOrder[1])
            /\ Succeeded(CallOrder[2])
            /\ Succeeded(CallOrder[3]))

\* The validation approved and exited 0 although an application suite failed.
C21_Witness ==
    /\ validationPc = "done"
    /\ validationExit = 0
    /\ Failed(CallOrder[4])
    /\ Succeeded(CallOrder[5])
    /\ ~validatorResults.productionReadiness

\* C22: the six commands run in the order of the source whatever the earlier
\* ones returned, the report is generated only after all six returned, the
\* process exits only after the report, and it does exit.
C22_FixedOrderNoSkipping ==
    /\ [](/\ Len(testResults) <= Len(CallOrder)
          /\ \A i \in 1..Len(testResults) : testResults[i].name = CallOrder[i]
          /\ deploymentApproved # "pending" => Len(testResults) = Len(CallOrder)
          /\ validationExit # -1 => deploymentApproved # "pending")
    /\ <>(validationExit # -1)

\* Every step but the last application suite failed and all six ran before
\* the exit.
C22_Witness ==
    /\ validationPc = "done"
    /\ validationExit = 1
    /\ Len(testResults) = Len(CallOrder)
    /\ \A i \in 1..5 : ~testResults[i].success
    /\ testResults[6].success

\* The requests made for the endpoint at position e.
RequestsOf(e) == {i \in 1..Len(requests) : requests[i].test = e}

\* testEndpoint finished for the endpoint at position e.
EndpointTested(e) == e < checkIndex

\* The endpoint at position e was tested and none of its requests succeeded.
EndpointFailed(e) ==
    /\ EndpointTested(e)
    /\ \A i \in RequestsOf(e) : ~requests[i].success

\* The warnings checkAWSServices accounts for.
AwsWarnings ==
    CASE awsOutcome.cli = "none" -> 0
      [] awsOutcome.cli = "missing" -> 1
      [] OTHER -> (IF awsOutcome.lambda = "found" THEN 0 ELSE 1)
                    + (IF awsOutcome.cognito = "found" THEN 0 ELSE 1)

EndpointIndexes == 1..Len(Endpoints)

\* C23: the health check exits 1 exactly when an endpoint marked critical
\* failed; failures of the non-critical endpoint and everything the AWS CLI
\* commands do are counted as warnings only.
C23_OnlyCriticalEndpointsBlock ==
    /\ healthExit # -1 =>
        (healthExit = 1 <=>
            \E e \in EndpointIndexes : Endpoints[e].critical /\ EndpointFailed(e))
    /\ healthResults.failed =
        Cardinality({e \in EndpointIndexes : Endpoints[e].critical /\ EndpointFailed(e)})
    /\ Len(healthResults.critical_failures) = healthResults.failed
    /\ healthResults.warnings =
        Cardinality({e \in EndpointIndexes : ~Endpoints[e].critical /\ EndpointFailed(e)})
            + AwsWarnings

\* The non-critical endpoint failed, both AWS listings threw, and the health
\* check exited 0.
C23_Witness ==
    /\ healthPc = "done"
    /\ healthExit = 0
    /\ EndpointFailed(4)
    /\ awsOutcome.lambda = "threw"
    /\ awsOutcome.cognito = "threw"
    /\ healthResults.warnings = 3

\* The sum of the three counters.
CounterSum(r) == r.passed + r.failed + r.warnings

\* A step of testEndpoint changes the counters only where it records the
\* endpoint, and there adds one to exactly one of them: passed exactly when a
\* request of the endpoint succeeded.
TestEndpointCounts ==
    healthPc \in {"primary", "fallback", "record"} =>
        IF healthPc = "record"
        THEN /\ CounterSum(healthResults') = CounterSum(healthResults) + 1
             /\ healthResults'.passed >= healthResults.passed
             /\ healthResults'.failed >= healthResults.failed
             /\ healthResults'.warnings >= healthResults.warnings
             /\ healthResults'.passed = healthResults.passed + 1
                    <=> \E i \in RequestsOf(checkIndex) : requests[i].success
        ELSE healthResults' = healthResults

\* C24: a fallback request follows a failed primary request of an endpoint
\* that configures a fallback, once at most for each endpoint; the endpoint
\* is counted as passed exactly when one of its requests succeeded; and each
\* call of testEndpoint adds one to exactly one of the three counters.
C24_FallbackOnceAndOneCounter ==
    /\ [](\A i \in 1..Len(requests) :
            requests[i].url = "fallback" =>
                /\ Endpoints[requests[i].test].fallback
                /\ i > 1
                /\ requests[i - 1].url = "primary"
                /\ requests[i - 1].test = requests[i].test
                /\ ~requests[i - 1].success
                /\ Cardinality(RequestsOf(requests[i].test)) = 2)
    /\ [][TestEndpointCounts]_vars
    /\ <>(healthPc = "done")

\* The primary request of the CDN endpoint failed, its fallback succeeded and
\* the endpoint was counted as passed.
C24_Witness ==
    /\ checkIndex = 2
    /\ Len(requests) = 2
    /\ ~requests[1].success
    /\ requests[2].url = "fallback"
    /\ requests[2].success
    /\ healthResults.passed = 1
    /\ CounterSum(healthResults) = 1

\* The command of the current run met the outcome.
CommandMet(command, outcome) ==
    \E i \in 1..Len(commandsRun) :
        commandsRun[i].command = command /\ commandsRun[i].outcome = outcome

\* Both commands of the current run succeeded.
BothSucceeded ==
    /\ CommandMet(InfrastructureCommand, "succeeded")
    /\ CommandMet(TenantCommand, "succeeded")

\* The current run is past its try statement and no later run has started.
RunDecided == dashPc \in {"stamp", "notify"} \/ (dashPc = "idle" /\ notification # "none")

\* C25: a dashboard run leaves overall.ready true only if both of its
\* commands succeeded; after a failed infrastructure command the tenant
\* command is not started; a run with a failed command leaves overall.ready
\* false and the three statuses critical; every run refreshes lastUpdate,
\* reaches the notification step, and writes nothing after it.
C25_FailedRunIsNotReady ==
    /\ [](/\ Len(commandsRun) <= 2
          /\ CommandMet(InfrastructureCommand, "failed") => Len(commandsRun) = 1
          /\ CommandMet(TenantCommand, "failed") \/ CommandMet(TenantCommand, "succeeded")
                => commandsRun[1] =
                    [command |-> InfrastructureCommand, outcome |-> "succeeded"]
          /\ RunDecided =>
                /\ deploymentResults.overall.ready <=> BothSucceeded
                /\ ~BothSucceeded =>
                    /\ deploymentResults.infrastructure = "critical"
                    /\ deploymentResults.tenantHealth = "critical"
                    /\ deploymentResults.tests = "critical"
          /\ dashPc = "notify" \/ (dashPc = "idle" /\ notification # "none")
                => deploymentResults.lastUpdate = clock)
    /\ [][MailSettles => deploymentResults' = deploymentResults]_vars
    /\ (dashPc = "infra") ~> (dashPc = "notify")

\* The second run's tenant command failed after a first run that was ready:
\* the run reached the notification step with ready false, the statuses
\* critical and lastUpdate refreshed.
C25_Witness ==
    /\ dashRuns = 2
    /\ dashPc = "notify"
    /\ commandsRun =
        <<[command |-> InfrastructureCommand, outcome |-> "succeeded"],
          [command |-> TenantCommand, outcome |-> "failed"]>>
    /\ deploymentResults.overall = [status |-> "ready", ready |-> FALSE]
    /\ deploymentResults.infrastructure = "critical"
    /\ deploymentResults.lastUpdate = 2

\* The number of entries of results with passed true.
SuitePassed == Cardinality({i \in 1..Len(suiteResults) : suiteResults[i].passed})

\* C27: each test that ran added exactly one entry to results, passed if it
\* returned and failed if it threw; the report is generated after all 14
\* tests ran, whichever of them threw; and the suite exits 0 exactly when
\* 100 * passed / total, rounded to the nearest integer, is at least 80.
C27_OneEntryPerTestAndThreshold ==
    /\ Len(suiteResults) = Len(suiteOutcomes)
    /\ Len(suiteOutcomes) = suiteIndex - 1
    /\ \A i \in 1..Len(suiteOutcomes) :
        /\ i <= Len(suiteResults)
        /\ suiteResults[i].passed <=> suiteOutcomes[i] = "returns"
    /\ suitePc \in {"report", "done"} => Len(suiteOutcomes) = 14
    /\ suiteExit # -1 =>
        /\ suitePc = "done"
        /\ suiteExit = 0 <=>
            \E rate \in 80..100 :
                /\ 2 * rate * Len(suiteResults) - Len(suiteResults) <= 200 * SuitePassed
                /\ 200 * SuitePassed < 2 * rate * Len(suiteResults) + Len(suiteResults)

\* The first test and the last threw, twelve tests passed, and the suite
\* exited 0 with a rate of 86.
C27_Witness ==
    /\ suitePc = "done"
    /\ Len(suiteResults) = 14
    /\ suiteOutcomes[1] = "throws"
    /\ suiteOutcomes[14] = "throws"
    /\ SuitePassed = 12
    /\ suiteExit = 0

====
